---- MODULE Spec2Model ----
(***************************************************************************)
(* Model of the estimate-spreadsheet parsers of protect_profit:            *)
(*   - backend/app/services/deterministic_parser.py  (parse_estimate_xlsx) *)
(*   - backend/app/services/estimate_parser.py       (EstimateParser)      *)
(*                                                                         *)
(* Cell values are the texts str(cell) yields; a blank cell is "".  Money  *)
(* and quantities are integers counted in thousandths (1.00 = 1000), so    *)
(* that the 2-decimal rounding of the code is a real conversion.  The cell *)
(* texts of the row catalogue carry at most three decimals and no exact    *)
(* half-cent, the one place where round() depends on the binary float.     *)
(***************************************************************************)
EXTENDS Integers, Sequences, FiniteSets, TLC

VARIABLES
    parser,                 \* "det": deterministic_parser.parse_estimate_xlsx, "est": EstimateParser.parse_estimate_xlsx,
                            \* "call": one direct call of a normalizer of one of them
    sheet,                  \* the worksheet: a sequence of rows, each named by its entry in RowCat
    pc,                     \* position of the running parse
    row_idx,                \* index of the row the item scan reads next (0-based, as in the code)
    project_subtotal_raw,   \* det: Option(number), set by the bottom-up summary scan
    project_subtotal_idx,   \* det: Option(row index)
    overhead_profit_raw,    \* det: Option(number)
    job_total_raw,          \* det: Option(number)
    current_division,       \* det: Option(division under construction)
    divisions,              \* both: list of closed divisions
    column_map,             \* est: field -> column index (a function on the mapped fields)
    current_division_code,  \* est: Option(code)
    current_division_name,  \* est: name of the open division
    current_items,          \* est: items of the open division
    result,                 \* Option(returned result)
    error,                  \* "" or the message of the raised exception
    fn,                     \* "call": the helper that is called directly
    arg,                    \* "call": its argument, a cell text or the name of a row of RowCat
    ret,                    \* "call": Option(what it returned)
    history,                \* the outcomes of the parses that ran before the running one, oldest first
    request,                \* smart_budget_upload: position of the handler, "none" when no upload runs
    temp_file,              \* smart_budget_upload: the file at temp_file_path exists
    tables,                 \* the database: the rows of projects, files, budget_items, audit_logs
    response,               \* smart_budget_upload: 0 or the status code of the response
    float_gt                \* what the float comparison of line 133 gave so far where the exact
                            \* difference is one cent: triples <<subtotal, items total, outcome>>

vars == <<parser, sheet, pc, row_idx, project_subtotal_raw, project_subtotal_idx,
          overhead_profit_raw, job_total_raw, current_division, divisions,
          column_map, current_division_code, current_division_name, current_items,
          result, error, fn, arg, ret, history, float_gt,
          request, temp_file, tables, response>>

(***************************************************************************)
(* Python values                                                           *)
(***************************************************************************)
None == <<>>
Some(v) == <<v>>
IsNone(o) == o = <<>>
Val(o) == o[1]

Abs(x) == IF x < 0 THEN -x ELSE x

RECURSIVE SumSeq(_)
SumSeq(s) == IF s = <<>> THEN 0 ELSE Head(s) + SumSeq(Tail(s))

(***************************************************************************)
(* Text: a string is its sequence of characters                            *)
(***************************************************************************)
Digits == {"0", "1", "2", "3", "4", "5", "6", "7", "8", "9"}
DigitChars == "0123456789"
LowerAlpha == "abcdefghijklmnopqrstuvwxyz"
UpperAlpha == "ABCDEFGHIJKLMNOPQRSTUVWXYZ"

CharAt(s, i) == SubSeq(s, i, i)

\* position of character c in the string s, 0 when absent
IndexIn(c, s) == IF \E i \in 1..Len(s) : CharAt(s, i) = c
                 THEN CHOOSE i \in 1..Len(s) : CharAt(s, i) = c
                 ELSE 0

DigitVal(c) == IndexIn(c, DigitChars) - 1

IsAlpha(c) == IndexIn(c, LowerAlpha) > 0 \/ IndexIn(c, UpperAlpha) > 0
IsAlnum(c) == IsAlpha(c) \/ c \in Digits
IsSpace(c) == c = " "

LowerChar(c) == IF IndexIn(c, UpperAlpha) > 0 THEN CharAt(LowerAlpha, IndexIn(c, UpperAlpha)) ELSE c
UpperChar(c) == IF IndexIn(c, LowerAlpha) > 0 THEN CharAt(UpperAlpha, IndexIn(c, LowerAlpha)) ELSE c

\* str.lower(), str.upper()
RECURSIVE Lower(_)
Lower(s) == IF s = "" THEN "" ELSE LowerChar(CharAt(s, 1)) \o Lower(Tail(s))
RECURSIVE Upper(_)
Upper(s) == IF s = "" THEN "" ELSE UpperChar(CharAt(s, 1)) \o Upper(Tail(s))

\* str.strip()
RECURSIVE LStrip(_)
LStrip(s) == IF s # "" /\ IsSpace(CharAt(s, 1)) THEN LStrip(Tail(s)) ELSE s
RECURSIVE RStrip(_)
RStrip(s) == IF s # "" /\ IsSpace(CharAt(s, Len(s))) THEN RStrip(SubSeq(s, 1, Len(s) - 1)) ELSE s
Strip(s) == RStrip(LStrip(s))

\* p in s
IsSubstring(p, s) == \E i \in 1..(Len(s) - Len(p) + 1) : SubSeq(s, i, i + Len(p) - 1) = p

\* s.endswith(p)
EndsWith(s, p) == Len(p) <= Len(s) /\ SubSeq(s, Len(s) - Len(p) + 1, Len(s)) = p

\* s[:n]
Prefix(s, n) == SubSeq(s, 1, IF Len(s) < n THEN Len(s) ELSE n)

\* str(n) of a natural number
RECURSIVE IntToStr(_)
IntToStr(n) == IF n < 10 THEN CharAt(DigitChars, n + 1)
               ELSE IntToStr(n \div 10) \o CharAt(DigitChars, (n % 10) + 1)

\* value of a string of decimal digits
RECURSIVE DecVal(_)
DecVal(s) == IF s = "" THEN 0 ELSE DecVal(SubSeq(s, 1, Len(s) - 1)) * 10 + DigitVal(CharAt(s, Len(s)))

AllDigits(s) == \A i \in 1..Len(s) : CharAt(s, i) \in Digits

(***************************************************************************)
(* Numbers                                                                 *)
(***************************************************************************)
\* float(s) for the texts of the model: [sign] digits [. digits] | [sign] . digits.
\* Option(value in thousandths); None stands for ValueError.
\* ip: the digits before the dot, fp: the digits after it
FloatValue(neg, ip, fp) ==
    IF AllDigits(ip) /\ AllDigits(fp) /\ Len(ip) + Len(fp) > 0
    THEN Some((IF neg THEN -1 ELSE 1) * (DecVal(ip) * 1000 + DecVal(Prefix(fp \o "000", 3))))
    ELSE None

\* body: the text after the sign, dot: the position of its first dot (0: none)
FloatParts(neg, body, dot) ==
    FloatValue(neg,
               IF dot = 0 THEN body ELSE SubSeq(body, 1, dot - 1),
               IF dot = 0 THEN "" ELSE SubSeq(body, dot + 1, Len(body)))

FloatSigned(neg, body) == FloatParts(neg, body, IndexIn(".", body))

FloatOfStripped(t) ==
    FloatSigned(t # "" /\ CharAt(t, 1) = "-",
                IF t # "" /\ CharAt(t, 1) \in {"-", "+"} THEN Tail(t) ELSE t)

PyFloat(s) == FloatOfStripped(Strip(s))

\* the value of a float() that succeeded, d when it raised
FloatOr(o, d) == IF IsNone(o) THEN d ELSE Val(o)

\* round(x, 2) on thousandths: to the nearest hundredth (a multiple of 10)
Round2(x) ==
    LET q == x \div 10
        r == x % 10
    IN  IF r < 5 THEN q * 10
        ELSE IF r > 5 THEN (q + 1) * 10
        ELSE IF q % 2 = 0 THEN q * 10 ELSE (q + 1) * 10

(***************************************************************************)
(* deterministic_parser.py: helper functions                               *)
(***************************************************************************)
\* re.sub(r'[^\d.-]', '', text)
RECURSIVE CleanCurrency(_)
CleanCurrency(text) ==
    IF text = "" THEN ""
    ELSE (IF CharAt(text, 1) \in Digits \cup {".", "-"} THEN CharAt(text, 1) ELSE "")
         \o CleanCurrency(Tail(text))

\* _parse_currency: 0.0 for a blank cell, for a cell with no digit, dot or minus,
\* and for a cleaned text float() rejects
CurrencyOfClean(clean_str) == IF clean_str = "" THEN 0 ELSE FloatOr(PyFloat(clean_str), 0)

_parse_currency(value) == IF value = "" THEN 0 ELSE CurrencyOfClean(CleanCurrency(value))

\* _parse_number: Option(number), None for a blank or unparseable cell
_parse_number(value) ==
    IF value = "" \/ Strip(value) = "nan" THEN None
    ELSE PyFloat(Strip(value))

valid_units == {"EA", "LF", "SF", "SY", "CY", "HR", "LS", "MO"}

unit_map ==
    ("EACH" :> "EA") @@ ("LINEAR" :> "LF") @@ ("LINEAL" :> "LF") @@ ("SQUARE" :> "SF") @@
    ("SQ" :> "SF") @@ ("CUBIC" :> "CY") @@ ("HOUR" :> "HR") @@ ("HOURS" :> "HR") @@
    ("LUMP" :> "LS") @@ ("MONTH" :> "MO") @@ ("MONTHS" :> "MO")

\* lines 254-272, given unit.upper()
CanonicalUnit(unit_upper) ==
    IF unit_upper \in valid_units THEN Some(unit_upper)
    ELSE IF unit_upper \in DOMAIN unit_map THEN Some(unit_map[unit_upper])
    ELSE None

\* _normalize_unit: Option(canonical unit)
_normalize_unit(unit) == IF unit = "" \/ unit = "nan" THEN None ELSE CanonicalUnit(Upper(unit))

\* re.sub(r'\s+', '-', text) on a stripped text
RECURSIVE HyphenateSpaces(_)
HyphenateSpaces(s) ==
    IF s = "" THEN ""
    ELSE IF IsSpace(CharAt(s, 1)) THEN "-" \o HyphenateSpaces(LStrip(s))
    ELSE CharAt(s, 1) \o HyphenateSpaces(Tail(s))

\* re.sub(r'[^a-zA-Z0-9\s]', '', text)
RECURSIVE KeepAlnumSpace(_)
KeepAlnumSpace(text) ==
    IF text = "" THEN ""
    ELSE (IF IsAlnum(CharAt(text, 1)) \/ IsSpace(CharAt(text, 1)) THEN CharAt(text, 1) ELSE "")
         \o KeepAlnumSpace(Tail(text))

\* _slugify
_slugify(text) == HyphenateSpaces(Strip(KeepAlnumSpace(Lower(text))))

SlugLen == 24

\* the lineId without the row index
LineIdNoIdx(division_code, slug, idx) == division_code \o "-" \o slug

\* the lineId of line 101, given _slugify(description)
LineId(division_code, slug, idx) ==
    division_code \o "-" \o Prefix(slug, SlugLen) \o "-" \o IntToStr(idx)

TotalCosts(items) == [k \in 1..Len(items) |-> items[k].totalCost]

\* the divisionTotal taken from the item added last, not summed
FinalizeLastItem(division) ==
    [divisionCode  |-> division.divisionCode,
     divisionName  |-> division.divisionName,
     items         |-> division.items,
     divisionTotal |-> division.items[Len(division.items)].totalCost]

\* _finalize_division: the division with its divisionTotal set
_finalize_division(division) ==
    [divisionCode  |-> division.divisionCode,
     divisionName  |-> division.divisionName,
     items         |-> division.items,
     divisionTotal |-> Round2(SumSeq(TotalCosts(division.items)))]

(***************************************************************************)
(* The worksheets                                                          *)
(***************************************************************************)
\* a row of columns A..O, given its cells in columns A, C, D, E, H, J, L, M, N, O
MkRow(a, c, d, e, h, j, l, m, n, o) == <<a, "", c, d, e, "", "", h, "", j, "", l, m, n, o>>

BlankRow == MkRow("", "", "", "", "", "", "", "", "", "")

RowCat ==
    \* rows of the sheet's head
    ("client"  :> MkRow("", "Acme Homes", "", "", "", "", "", "", "", "")) @@
    ("project" :> MkRow("", "Shed", "", "", "", "", "", "", "", "")) @@
    ("date"    :> MkRow("", "2024-05-01", "", "", "", "", "", "", "", "")) @@
    ("blank"   :> BlankRow) @@
    ("early_hdr"  :> MkRow("9", "Early", "", "", "", "", "", "", "", "")) @@
    ("early_item" :> MkRow("", "Early item", "1", "LS", "", "", "", "$100.00", "", "")) @@
    ("labels"  :> MkRow("Div", "Description", "Qty", "Unit", "Material Subtotal", "Labor Subtotal",
                        "Sub/Equip Subtotal", "Budget Total", "Scope Notes", "Estimating Notes")) @@
    \* rows of the sheet's body
    ("hdr_1"   :> MkRow("1", "Site Work", "", "", "", "", "", "", "", "")) @@
    ("hdr_02"  :> MkRow("02", "Concrete Subtotal", "", "", "", "", "", "$100.00", "", "")) @@
    ("item"    :> MkRow("", "Footings 3000 psi", "", "EACH", "$60.00", "$50.00", "", "$100.00", "by others", "")) @@
    ("credit"  :> MkRow("", "Credit", "2", "YEAR", "-50", "", "", "100", "", "")) @@
    ("dust"    :> MkRow("", "Misc", "n/a", "sf", "0.004", "", "", "", "", "check")) @@
    \* rows of the sheet's end
    ("skip"    :> MkRow("", "Subtotal", "", "", "", "", "", "$100.00", "", "")) @@
    ("zero"    :> MkRow("", "Allowance", "1", "LS", "$0.00", "", "0", "0", "", "")) @@
    ("ps_100"  :> MkRow("", "Project Subtotal", "", "", "", "", "", "$100.00", "", "")) @@
    ("ps_200"  :> MkRow("", "Project Subtotal", "", "", "", "", "", "$200.00", "", "")) @@
    ("ps_0"    :> MkRow("", "Project Subtotal", "", "", "", "", "", "$0.00", "", "")) @@
    ("ps_cent" :> MkRow("", "PROJECT SUBTOTAL", "", "", "", "", "", "100.01", "", "")) @@
    ("op"      :> MkRow("", "Overhead & Profit", "", "", "", "", "", "$20.00", "", "")) @@
    ("jt"      :> MkRow("", "Job Total", "", "", "", "", "", "$220.00", "", "")) @@
    ("op_0"    :> MkRow("", "Overhead and Profit", "", "", "", "", "", "$0.00", "", "")) @@
    ("jt_0"    :> MkRow("", "Job Total", "", "", "", "", "", "0", "", "")) @@
    \* rows that stand between the body and the Project Subtotal row
    ("refund"  :> MkRow("", "Refund of deposit paid on windows", "", "", "$100.00", "", "", "-5", "", "")) @@
    ("fee"     :> MkRow("", "Contingency", "1", "LS", "", "", "", "$100.00", "", "")) @@
    ("hdr_dash" :> MkRow("", "02 - Site Work", "", "", "", "", "", "", "", "")) @@
    \* a row whose quantity, unit and three component costs are no numbers and no unit
    ("bad"     :> MkRow("", "Stone veneer", "abc", "BAGS", "1-2", "TBD", "1.2.3", "$100.00", "", ""))

\* the first six rows of a sheet: plain, or with a row of column labels
Heads == { <<"client", "project", "date", "blank", "blank", "blank">>,
           <<"client", "project", "date", "early_hdr", "early_item", "labels">> }

BodyRows == {"hdr_1", "hdr_02", "item", "credit", "dust"}

\* the summary rows that end a sheet
Tails == { <<>>,
           <<"ps_100">>,
           <<"ps_cent">>,
           <<"skip", "zero", "ps_200", "op", "jt">>,
           <<"refund", "fee", "ps_200">>,
           <<"ps_200", "jt", "ps_100", "op", "op_0", "jt_0">>,
           <<"hdr_dash", "item", "ps_200">>,
           <<"bad", "item", "ps_200">>,
           <<"ps_0", "hdr_02", "item">> }

MaxBody == 4

Bodies == UNION { [1..n -> BodyRows] : n \in 0..MaxBody }

\* the second set: sheets whose only Project Subtotal row is in the head
Sheets == { h \o b \o t : h \in Heads, b \in Bodies, t \in Tails }
          \cup { <<"client", "project", "date", "blank", "ps_0", "blank">> \o b : b \in Bodies }

\* df.iloc[i, c] of a sheet read with header=None and fillna('')
Cell(df, i, c) == RowCat[df[i + 1]][c + 1]

(***************************************************************************)
(* deterministic_parser.parse_estimate_xlsx                                *)
(***************************************************************************)
FirstItemRow == 6
Tolerance == 10

\* every row from the first item row to the end of the sheet
ScanRowsToEnd(df, subtotal_idx) == FirstItemRow..(Len(df) - 1)

\* range(6, project_subtotal_idx), line 45
ScanRows(df, subtotal_idx) == FirstItemRow..(subtotal_idx - 1)

\* re.match(r'^\d{1,2}$', s), line 50
IsDivisionCode(s) == Len(s) \in {1, 2} /\ AllDigits(s)

\* the header numeral taken as it stands
NoFill(s) == s

\* s.zfill(2), line 57
ZFill2(s) == IF Len(s) < 2 THEN "0" \o s ELSE s

\* lines 79-80: the end-anchored skip pattern, matched ignoring case
skip_suffixes == {"subtotal", "job total", "payment terms", "accepted by", "terms", "warranty"}
IsSummaryRow(description) == \E p \in skip_suffixes : EndsWith(Lower(description), p)

\* str(cell).strip() if it is not 'nan', else None (lines 97-98, 139-141)
TextOrNone(cell) == IF Strip(cell) # "nan" THEN Some(Strip(cell)) ELSE None

\* What the code reads off one row (columns A, C, D, E, H, J, L, M, N, O by
\* position), computed once for each row of the catalogue:
\*   lines 22-34 (desc and the three markers), 49-50, 58, 72, 80, 84-87, 95-98, 101
DetView(row, div_code_raw, description, desc) ==
    [div_code_raw        |-> div_code_raw,
     description         |-> description,
     is_project_subtotal |-> IsSubstring("project subtotal", desc),
     is_overhead_profit  |-> IsSubstring("overhead", desc) /\ IsSubstring("profit", desc),
     is_job_total        |-> IsSubstring("job total", desc),
     is_division         |-> IsDivisionCode(div_code_raw),
     is_summary          |-> IsSummaryRow(description),
     material_cost       |-> _parse_currency(row[8]),
     labor_cost          |-> _parse_currency(row[10]),
     subequip_cost       |-> _parse_currency(row[12]),
     total_cost          |-> _parse_currency(row[13]),
     quantity            |-> _parse_number(row[4]),
     unit                |-> _normalize_unit(Strip(row[5])),
     scope_notes         |-> TextOrNone(row[14]),
     estimating_notes    |-> TextOrNone(row[15]),
     slug                |-> _slugify(description)]

DetViewOf(row) == DetView(row, Strip(row[1]), Strip(row[3]), Lower(Strip(row[3])))

DetRow == [r \in DOMAIN RowCat |-> DetViewOf(RowCat[r])]

\* a value found below is kept only when it is not zero ("not x" for "x is None")
SummaryStepFalsy(st, row, i) ==
    [project_subtotal_raw |-> IF row.is_project_subtotal /\ (IsNone(st.project_subtotal_raw) \/ Val(st.project_subtotal_raw) = 0)
                              THEN Some(row.total_cost) ELSE st.project_subtotal_raw,
     project_subtotal_idx |-> IF row.is_project_subtotal /\ (IsNone(st.project_subtotal_raw) \/ Val(st.project_subtotal_raw) = 0)
                              THEN Some(i) ELSE st.project_subtotal_idx,
     overhead_profit_raw  |-> IF row.is_overhead_profit /\ (IsNone(st.overhead_profit_raw) \/ Val(st.overhead_profit_raw) = 0)
                              THEN Some(row.total_cost) ELSE st.overhead_profit_raw,
     job_total_raw        |-> IF row.is_job_total /\ (IsNone(st.job_total_raw) \/ Val(st.job_total_raw) = 0)
                              THEN Some(row.total_cost) ELSE st.job_total_raw]

\* lines 22-35: row i, read with the four values st found below it
SummaryStep(st, row, i) ==
    [project_subtotal_raw |-> IF row.is_project_subtotal /\ IsNone(st.project_subtotal_raw)
                              THEN Some(row.total_cost) ELSE st.project_subtotal_raw,
     project_subtotal_idx |-> IF row.is_project_subtotal /\ IsNone(st.project_subtotal_raw)
                              THEN Some(i) ELSE st.project_subtotal_idx,
     overhead_profit_raw  |-> IF row.is_overhead_profit /\ IsNone(st.overhead_profit_raw)
                              THEN Some(row.total_cost) ELSE st.overhead_profit_raw,
     job_total_raw        |-> IF row.is_job_total /\ IsNone(st.job_total_raw)
                              THEN Some(row.total_cost) ELSE st.job_total_raw]

\* Step 2, lines 21-35: rows i, i-1, .., 0 read bottom-up, each with what the rows below it gave
RECURSIVE SummaryScan(_, _, _)
SummaryScan(df, i, st) ==
    IF i < 0 THEN st
    ELSE CHOOSE found \in {SummaryScan(df, i - 1, SummaryStep(below, DetRow[df[i + 1]], i)) :
                              below \in {st}} : TRUE

FindSummaryRows(df) ==
    SummaryScan(df, Len(df) - 1,
                [project_subtotal_raw |-> None, project_subtotal_idx |-> None,
                 overhead_profit_raw |-> None, job_total_raw |-> None])

\* "x or 1.0"
OrOne(o) == IF IsNone(o) THEN 1000 ELSE Val(o)

\* "x or 0.0" of lines 128-130
OrZero(o) == IF IsNone(o) THEN 0 ELSE Val(o)

\* line 90: the row is an item when one of its four costs is positive
IncludeItem(material_cost, labor_cost, subequip_cost, total_cost) ==
    material_cost > 0 \/ labor_cost > 0 \/ subequip_cost > 0 \/ total_cost > 0

\* line 92
CalcTotal(material_cost, labor_cost, subequip_cost, total_cost) ==
    IF total_cost > 0 THEN total_cost ELSE material_cost + labor_cost + subequip_cost

\* the item with the index of the row after its own in the lineId
BuildItemNextRow(row, idx, division_code) ==
    [lineId           |-> LineId(division_code, row.slug, idx + 1),
     tradeDescription |-> row.description,
     quantity         |-> IF IsNone(row.quantity) THEN None ELSE Some(Round2(Val(row.quantity))),
     unit             |-> row.unit,
     materialCost     |-> Round2(row.material_cost),
     laborCost        |-> Round2(row.labor_cost),
     subEquipCost     |-> Round2(row.subequip_cost),
     totalCost        |-> Round2(CalcTotal(row.material_cost, row.labor_cost,
                                           row.subequip_cost, row.total_cost)),
     scopeNotes       |-> row.scope_notes,
     estimatingNotes  |-> row.estimating_notes]

\* lines 95-114: the item of the row at index idx, in the division division_code
BuildItem(row, idx, division_code) ==
    [lineId           |-> LineId(division_code, row.slug, idx),
     tradeDescription |-> row.description,
     quantity         |-> IF IsNone(row.quantity) THEN None ELSE Some(Round2(Val(row.quantity))),
     unit             |-> row.unit,
     materialCost     |-> Round2(row.material_cost),
     laborCost        |-> Round2(row.labor_cost),
     subEquipCost     |-> Round2(row.subequip_cost),
     totalCost        |-> Round2(CalcTotal(row.material_cost, row.labor_cost,
                                           row.subequip_cost, row.total_cost)),
     scopeNotes       |-> row.scope_notes,
     estimatingNotes  |-> row.estimating_notes]

\* lines 72-90: does the row, read with a division open, add an item to it
IsItemRow(row) ==
    /\ row.description # "" /\ row.description # "nan"
    /\ ~row.is_summary
    /\ IncludeItem(row.material_cost, row.labor_cost, row.subequip_cost, row.total_cost)

\* the division under construction appended whether it has items or not
CloseDivisionAlways(divs, current) ==
    IF ~IsNone(current) THEN Append(divs, _finalize_division(Val(current))) ELSE divs

\* the division under construction appended twice
CloseDivisionTwice(divs, current) ==
    IF ~IsNone(current) /\ Val(current).items # <<>>
    THEN Append(Append(divs, _finalize_division(Val(current))), _finalize_division(Val(current)))
    ELSE divs

\* lines 52-54 and 120-122: the division under construction is finalized and
\* appended when it has items, dropped otherwise
CloseDivision(divs, current) ==
    IF ~IsNone(current) /\ Val(current).items # <<>>
    THEN Append(divs, _finalize_division(Val(current)))
    ELSE divs

DivisionTotals(divs) == [k \in 1..Len(divs) |-> divs[k].divisionTotal]

\* the comparison of line 133 left out
MismatchNever(project_subtotal, grand_total_from_items) == {FALSE}

\* line 133, abs(project_subtotal - grand_total_from_items) > 0.01 on floats: the
\* set of its possible values.  A difference of exactly one cent computes to a
\* float just above or just below 0.01 (100.01 - 100.0 > 0.01, 200.01 - 200.0 < 0.01).
Mismatch(project_subtotal, grand_total_from_items) ==
    LET d == Abs(project_subtotal - grand_total_from_items)
    IN  IF d > Tolerance THEN {TRUE} ELSE IF d < Tolerance THEN {FALSE} ELSE {TRUE, FALSE}

\* line 133 is a function of its two operands: the comparison gives what it gave
\* before on the same pair
Compared(known, project_subtotal, grand_total_from_items) ==
    {b \in Mismatch(project_subtotal, grand_total_from_items) :
        \A t \in known : (t[1] = project_subtotal /\ t[2] = grand_total_from_items) => t[3] = b}

\* lines 139-155
DetResult(df, divs, project_subtotal, overhead_profit, job_total, grand_total_from_items) ==
    [meta |-> [client  |-> TextOrNone(Cell(df, 0, 2)),
               project |-> TextOrNone(Cell(df, 1, 2)),
               date    |-> TextOrNone(Cell(df, 2, 2))],
     divisions           |-> divs,
     projectSubtotal     |-> Round2(project_subtotal),
     overheadAndProfit   |-> Round2(overhead_profit),
     jobTotal            |-> Round2(job_total),
     grandTotalFromItems |-> Round2(grand_total_from_items)]

EstIdle == /\ column_map = <<>> /\ current_division_code = None
           /\ current_division_name = "" /\ current_items = <<>>
CallIdle == fn = "" /\ arg = "" /\ ret = None

\* no upload request runs
UploadIdle == /\ request = "none" /\ temp_file = FALSE /\ response = 0
              /\ tables = [projects |-> {}, files |-> <<>>, budget_items |-> <<>>, audit_logs |-> <<>>]

InitDet ==
    /\ parser = "det"
    /\ sheet \in Sheets
    /\ pc = "start"
    /\ row_idx = 0
    /\ project_subtotal_raw = None /\ project_subtotal_idx = None
    /\ overhead_profit_raw = None /\ job_total_raw = None
    /\ current_division = None
    /\ divisions = <<>>
    /\ result = None /\ error = ""
    /\ EstIdle /\ CallIdle /\ UploadIdle /\ history = <<>> /\ float_gt = {}

\* Step 2 and lines 37-38
DetFindSummaryRows ==
    /\ parser = "det" /\ pc = "start"
    /\ \E st \in {FindSummaryRows(sheet)} :
           /\ project_subtotal_raw' = st.project_subtotal_raw
           /\ project_subtotal_idx' = st.project_subtotal_idx
           /\ overhead_profit_raw' = st.overhead_profit_raw
           /\ job_total_raw' = st.job_total_raw
           /\ IF IsNone(st.project_subtotal_idx)
              THEN pc' = "raised" /\ error' = "Could not find Project Subtotal row"
                   /\ row_idx' = row_idx
              ELSE pc' = "scan" /\ error' = error /\ row_idx' = FirstItemRow
    /\ UNCHANGED <<request, temp_file, tables, response, history, float_gt, parser, sheet, current_division, divisions, column_map,
                   current_division_code, current_division_name, current_items,
                   result, fn, arg, ret>>

\* Step 3, one pass of the loop of lines 45-117
DetScanRow ==
    /\ parser = "det" /\ pc = "scan"
    /\ row_idx \in ScanRows(sheet, Val(project_subtotal_idx))
    /\ \E row \in {DetRow[sheet[row_idx + 1]]} :
           IF row.is_division
           THEN /\ divisions' = CloseDivision(divisions, current_division)
                /\ current_division' = Some([divisionCode |-> ZFill2(row.div_code_raw),
                                             divisionName |-> row.description,
                                             items        |-> <<>>])
           ELSE IF ~IsNone(current_division) /\ IsItemRow(row)
           THEN /\ current_division' =
                       Some([Val(current_division) EXCEPT
                               !.items = Append(@, BuildItem(row, row_idx,
                                                             Val(current_division).divisionCode))])
                /\ divisions' = divisions
           ELSE UNCHANGED <<current_division, divisions>>
    /\ row_idx' = row_idx + 1
    /\ UNCHANGED <<request, temp_file, tables, response, history, float_gt, parser, sheet, pc, project_subtotal_raw, project_subtotal_idx,
                   overhead_profit_raw, job_total_raw, column_map,
                   current_division_code, current_division_name, current_items,
                   result, error, fn, arg, ret>>

\* Step 4, lines 120-122
DetCloseLast ==
    /\ parser = "det" /\ pc = "scan"
    /\ row_idx \notin ScanRows(sheet, Val(project_subtotal_idx))
    /\ divisions' = CloseDivision(divisions, current_division)
    /\ pc' = "reconcile"
    /\ UNCHANGED <<request, temp_file, tables, response, history, float_gt, parser, sheet, row_idx, project_subtotal_raw, project_subtotal_idx,
                   overhead_profit_raw, job_total_raw, current_division, column_map,
                   current_division_code, current_division_name, current_items,
                   result, error, fn, arg, ret>>

\* Steps 5-7, lines 125-158
DetReconcile ==
    /\ parser = "det" /\ pc = "reconcile"
    /\ LET grand_total_from_items == SumSeq(DivisionTotals(divisions))
           project_subtotal == OrZero(project_subtotal_raw)
           overhead_profit  == OrZero(overhead_profit_raw)
           job_total        == OrZero(job_total_raw)
       IN  \E mismatch \in Compared(float_gt, project_subtotal, grand_total_from_items) :
              /\ float_gt' = float_gt \cup
                     (IF Abs(project_subtotal - grand_total_from_items) = Tolerance
                      THEN {<<project_subtotal, grand_total_from_items, mismatch>>} ELSE {})
              /\ IF mismatch
                 THEN /\ pc' = "raised"
                      /\ error' = "Parsed items don't reconcile with Project Subtotal"
                      /\ result' = result
                 ELSE /\ pc' = "done"
                      /\ error' = error
                      /\ result' = Some(DetResult(sheet, divisions, project_subtotal,
                                                  overhead_profit, job_total,
                                                  grand_total_from_items))
    /\ UNCHANGED <<request, temp_file, tables, response, history, parser, sheet, row_idx, project_subtotal_raw, project_subtotal_idx,
                   overhead_profit_raw, job_total_raw, current_division, divisions,
                   column_map, current_division_code, current_division_name,
                   current_items, fn, arg, ret>>

(***************************************************************************)
(* estimate_parser.py: EstimateParser                                      *)
(***************************************************************************)
\* pd.read_excel(..) with its default header=0: the first row of the sheet
\* becomes the column labels, the data frame holds the rows below it.  A column
\* is named here by its position 0..14; a blank cell is NaN.
EstFrame(sh) == IF sh = <<>> THEN <<>> ELSE Tail(sh)

Columns == 0..14

Fields == {"division", "tradeDescription", "quantity", "unit", "materialCost", "laborCost",
           "subEquipCost", "totalCost", "scopeNotes", "estimatingNotes"}

header_mappings ==
    ("division"         :> {"division", "div", "section"}) @@
    ("tradeDescription" :> {"trade description", "description", "item", "desc"}) @@
    ("quantity"         :> {"qty", "quantity"}) @@
    ("unit"             :> {"unit", "units", "um", "uom"}) @@
    ("materialCost"     :> {"material subtotal", "materials", "material"}) @@
    ("laborCost"        :> {"labor subtotal", "labor"}) @@
    ("subEquipCost"     :> {"sub/equip subtotal", "subcontractor", "equipment", "s/equip", "sub equip"}) @@
    ("totalCost"        :> {"budget total", "total", "line total"}) @@
    ("scopeNotes"       :> {"scope notes", "scope"}) @@
    ("estimatingNotes"  :> {"estimating notes", "notes"})

est_skip_patterns == {"subtotal", "project subtotal", "overhead", "profit", "job total",
                      "payment terms", "accepted by", "terms", "warranty", "contingency", "fee"}

est_valid_units == <<"EA", "LF", "SF", "SY", "CY", "HR", "LS">>

\* ' '.join(text.split()) on a text without leading or trailing blanks
RECURSIVE CollapseSpaces(_)
CollapseSpaces(s) ==
    IF s = "" THEN ""
    ELSE IF IsSpace(CharAt(s, 1)) THEN " " \o CollapseSpaces(LStrip(s))
    ELSE CharAt(s, 1) \o CollapseSpaces(Tail(s))

\* _normalize_header
_normalize_header(header) == CollapseSpaces(Strip(KeepAlnumSpace(Lower(Strip(header)))))

\* lines 117-125: the cell is not NaN and its normalized text contains a pattern of the field
HeaderMatches(field, cell_value) ==
    /\ cell_value # ""
    /\ \E pattern \in header_mappings[field] : IsSubstring(pattern, _normalize_header(cell_value))

\* least element of a non-empty set of numbers
Least(S) == CHOOSE x \in S : \A y \in S : x <= y
Greatest(S) == CHOOSE x \in S : \A y \in S : y <= x

\* re.match(r'^\$?[\d,]+\.?\d*$', s), line 457
\* t: the text after the optional "$", dot: the position of its first dot (0: none)
CurrencyShape(t, dot) ==
    /\ (dot = 0 => t # "") /\ dot # 1
    /\ \A i \in 1..(IF dot = 0 THEN Len(t) ELSE dot - 1) : CharAt(t, i) \in Digits \cup {","}
    /\ dot # 0 => AllDigits(SubSeq(t, dot + 1, Len(t)))

CurrencyTail(t) == CurrencyShape(t, IndexIn(".", t))

IsCurrencyText(s) == CurrencyTail(IF s # "" /\ CharAt(s, 1) = "$" THEN Tail(s) ELSE s)

\* lines 458-462: round(float(clean_value), 2), nothing when float() raises
RoundedFloat(o) == IF IsNone(o) THEN None ELSE Some(Round2(Val(o)))

CurrencyOfStripped(cell_str) ==
    IF IsCurrencyText(cell_str) /\ Len(cell_str) > 3
    THEN RoundedFloat(PyFloat(CleanCurrency(cell_str)))
    ELSE None

\* _find_currency_in_row tried on one cell: Option(amount)
CurrencyOfCell(cell_value) == IF cell_value = "" THEN None ELSE CurrencyOfStripped(Strip(cell_value))

\* the first of the amounts that is one
FirstAmount(amounts) ==
    IF \A c \in 1..Len(amounts) : IsNone(amounts[c]) THEN None
    ELSE amounts[Least({c \in 1..Len(amounts) : ~IsNone(amounts[c])})]

\* _find_currency_in_row: the amount of the first cell that yields one
_find_currency_in_row(row) == FirstAmount([c \in 1..Len(row) |-> CurrencyOfCell(row[c])])

\* the texts str(cell).strip().lower() of the cells of the row that are not NaN (lines 422-426)
CellStrs(row) == {Lower(Strip(row[c])) : c \in {c \in 1..Len(row) : row[c] # ""}}

\* _extract_meta on one row: the value next to the last cell that contains the
\* keyword and has a value to its right (lines 155-175)
ValueRightOf(row, hits) == IF hits = {} THEN None ELSE Some(Strip(row[Greatest(hits) + 1]))

MetaOfRow(row, keyword) ==
    ValueRightOf(row, {c \in 1..(Len(row) - 1) :
                          /\ row[c] # "" /\ IsSubstring(keyword, Lower(Strip(row[c])))
                          /\ row[c + 1] # ""})

\* What EstimateParser reads off one row whatever the column map is, computed
\* once for each row of the catalogue
FirstOf(cols) == IF cols = {} THEN None ELSE Some(Least(cols))

EstView(row, cells) ==
    [first_cell  |-> Strip(row[1]),
     first_isna  |-> row[1] = "",
     header_col  |-> [f \in Fields |-> FirstOf({c \in Columns : HeaderMatches(f, row[c + 1])})],
     has_project_subtotal |-> \E t \in cells : IsSubstring("project subtotal", t),
     has_overhead_profit  |-> \E t \in cells : IsSubstring("overhead", t) /\ IsSubstring("profit", t),
     has_job_total        |-> \E t \in cells : IsSubstring("job total", t),
     currency    |-> _find_currency_in_row(row),
     meta        |-> [k \in {"client", "project", "date"} |-> MetaOfRow(row, k)]]

EstViewOf(row) == EstView(row, CellStrs(row))

EstRow == [r \in DOMAIN RowCat |-> EstViewOf(RowCat[r])]

\* what is read off the rows of the frame df, in their order
EstRows(df) == [i \in 1..Len(df) |-> EstRow[df[i]]]

\* the column of the match found last, not first
HeadersInLast(rows) ==
    [f \in {f \in Fields : \E i \in 1..Len(rows) : i <= 6 /\ ~IsNone(rows[i].header_col[f])} |->
        Val(rows[Greatest({i \in 1..Len(rows) : i <= 6 /\ ~IsNone(rows[i].header_col[f])})].header_col[f])]

\* lines 109-133, rows: the frame as EstRows gives it.  Each field gets the
\* column of the first matching cell of the first of the rows 0..5 that has one
HeadersIn(rows) ==
    [f \in {f \in Fields : \E i \in 1..Len(rows) : i <= 6 /\ ~IsNone(rows[i].header_col[f])} |->
        Val(rows[Least({i \in 1..Len(rows) : i <= 6 /\ ~IsNone(rows[i].header_col[f])})].header_col[f])]

\* _resolve_headers
_resolve_headers(df) == HeadersIn(EstRows(df))

\* the last of the metas that is one
LastMeta(metas) ==
    IF \A i \in 1..Len(metas) : i > 10 \/ IsNone(metas[i]) THEN None
    ELSE metas[Greatest({i \in 1..Len(metas) : i <= 10 /\ ~IsNone(metas[i])})]

\* _extract_meta
_extract_meta(df) ==
    [k \in {"client", "project", "date"} |-> LastMeta([i \in 1..Len(df) |-> EstRow[df[i]].meta[k]])]

\* column_map.get(field)
MapGet(cmap, field) == IF field \in DOMAIN cmap THEN Some(cmap[field]) ELSE None

\* _detect_division.  Both of its branches that look at the description column
\* evaluate "desc_col in df.columns", and no name df is in scope in that method:
\* the evaluation raises NameError.
\* row: what EstRow gives for the row.
_detect_division(row, cmap) ==
    IF ~row.first_isna /\ IsDivisionCode(row.first_cell)
    THEN IF "tradeDescription" \in DOMAIN cmap
         THEN [kind |-> "NameError"]
         ELSE [kind |-> "division", code |-> ZFill2(row.first_cell), name |-> ""]
    ELSE IF "tradeDescription" \in DOMAIN cmap
         THEN [kind |-> "NameError"]
         ELSE [kind |-> "none"]

\* _should_skip_row
_should_skip_row(description) ==
    \E pattern \in est_skip_patterns : IsSubstring(pattern, Lower(description))

\* row[column_name] of the catalogue row r
CellOf(r, column_name) == RowCat[r][Val(column_name) + 1]

\* lines 335-344: the cleaned text as a float, 0.0 when it is empty or float() raises
CostOfValue(value) == IF value = "" THEN 0 ELSE CurrencyOfClean(CleanCurrency(value))

\* _extract_cost
_extract_cost(r, column_name) == IF IsNone(column_name) THEN 0 ELSE CostOfValue(CellOf(r, column_name))

\* lines 353-360
QuantityOfValue(value) == IF value = "" THEN 1000 ELSE FloatOr(PyFloat(value), 1000)

\* _extract_quantity
_extract_quantity(r, column_name) ==
    IF IsNone(column_name) THEN 1000 ELSE QuantityOfValue(CellOf(r, column_name))

\* lines 373-380: the first unit of valid_units the upper-cased text contains
UnitIn(unit_str) ==
    IF \A k \in 1..Len(est_valid_units) : ~IsSubstring(est_valid_units[k], unit_str) THEN None
    ELSE Some(est_valid_units[Least({k \in 1..Len(est_valid_units) :
                                        IsSubstring(est_valid_units[k], unit_str)})])

UnitOfValue(value) == IF value = "" THEN None ELSE UnitIn(Upper(Strip(value)))

\* _extract_unit
_extract_unit(r, column_name) == IF IsNone(column_name) THEN None ELSE UnitOfValue(CellOf(r, column_name))

NotesOfValue(value) == IF value = "" \/ Strip(value) = "" THEN None ELSE Some(Strip(value))

\* _extract_notes
_extract_notes(r, column_name) == IF IsNone(column_name) THEN None ELSE NotesOfValue(CellOf(r, column_name))

IsWordChar(c) == IsAlnum(c) \/ c = "_"

\* re.search(r'\b(\d{3,4})\b', description): Option(the first run of three or
\* four digits that stands between word boundaries)
\* k digits stand at position i of the description, between word boundaries
DigitRun(description, i, k) ==
    /\ i + k - 1 <= Len(description)
    /\ AllDigits(SubSeq(description, i, i + k - 1))
    /\ (i = 1 \/ ~IsWordChar(CharAt(description, i - 1)))
    /\ (i + k - 1 = Len(description) \/ ~IsWordChar(CharAt(description, i + k)))

CsiAt(description, i) ==
    SubSeq(description, i, i + (IF DigitRun(description, i, 4) THEN 4 ELSE 3) - 1)

CsiFrom(description, starts) ==
    IF starts = {} THEN None ELSE Some(CsiAt(description, Least(starts)))

CsiCode(description) ==
    CsiFrom(description, {i \in 1..Len(description) :
                             DigitRun(description, i, 3) \/ DigitRun(description, i, 4)})

\* re.sub(r'[^\w\s-]', '', text)
RECURSIVE KeepWordSpaceDash(_)
KeepWordSpaceDash(text) ==
    IF text = "" THEN ""
    ELSE (IF IsWordChar(CharAt(text, 1)) \/ IsSpace(CharAt(text, 1)) \/ CharAt(text, 1) = "-"
          THEN CharAt(text, 1) ELSE "")
         \o KeepWordSpaceDash(Tail(text))

RECURSIVE LStripDashSpace(_)
LStripDashSpace(s) ==
    IF s # "" /\ (IsSpace(CharAt(s, 1)) \/ CharAt(s, 1) = "-") THEN LStripDashSpace(Tail(s)) ELSE s

\* re.sub(r'[-\s]+', '-', text)
RECURSIVE HyphenateRuns(_)
HyphenateRuns(s) ==
    IF s = "" THEN ""
    ELSE IF IsSpace(CharAt(s, 1)) \/ CharAt(s, 1) = "-" THEN "-" \o HyphenateRuns(LStripDashSpace(s))
    ELSE CharAt(s, 1) \o HyphenateRuns(Tail(s))

RECURSIVE RStripDash(_)
RStripDash(s) ==
    IF s # "" /\ CharAt(s, Len(s)) = "-" THEN RStripDash(SubSeq(s, 1, Len(s) - 1)) ELSE s

\* _generate_line_id
CsiPart(csi_match) == IF IsNone(csi_match) THEN "" ELSE Val(csi_match) \o "-"

_generate_line_id(division_code, description, idx) ==
    division_code \o "-" \o CsiPart(CsiCode(description))
       \o RStripDash(Prefix(HyphenateRuns(KeepWordSpaceDash(Lower(description))), SlugLen))
       \o "-" \o IntToStr(idx)

\* _parse_line_item: Option(item)
\* lines 275-316, given the description and the four costs read off the row
LineItemOf(r, idx, cmap, division_code, description, material_cost, labor_cost, subequip_cost, total_cost) ==
    IF description = "" THEN None
    ELSE IF _should_skip_row(description) THEN None
    ELSE IF material_cost = 0 /\ labor_cost = 0 /\ subequip_cost = 0 /\ total_cost = 0 THEN None
    ELSE Some([lineId           |-> _generate_line_id(division_code, description, idx),
               tradeDescription |-> description,
               quantity         |-> Some(Round2(_extract_quantity(r, MapGet(cmap, "quantity")))),
               unit             |-> _extract_unit(r, MapGet(cmap, "unit")),
               materialCost     |-> Round2(material_cost),
               laborCost        |-> Round2(labor_cost),
               subEquipCost     |-> Round2(subequip_cost),
               totalCost        |-> Round2(IF total_cost = 0
                                           THEN material_cost + labor_cost + subequip_cost
                                           ELSE total_cost),
               scopeNotes       |-> _extract_notes(r, MapGet(cmap, "scopeNotes")),
               estimatingNotes  |-> _extract_notes(r, MapGet(cmap, "estimatingNotes"))])

_parse_line_item(r, idx, cmap, division_code) ==
    LineItemOf(r, idx, cmap, division_code,
               IF "tradeDescription" \in DOMAIN cmap
               THEN Strip(RowCat[r][cmap["tradeDescription"] + 1]) ELSE "",
               _extract_cost(r, MapGet(cmap, "materialCost")),
               _extract_cost(r, MapGet(cmap, "laborCost")),
               _extract_cost(r, MapGet(cmap, "subEquipCost")),
               _extract_cost(r, MapGet(cmap, "totalCost")))

\* lines 193-200 and 215-222: the open division is appended when it has items
EstCloseDivision(divs, code, name, items) ==
    IF ~IsNone(code) /\ items # <<>>
    THEN Append(divs, [divisionCode  |-> Val(code),
                       divisionName  |-> IF name # "" THEN name ELSE "Division " \o Val(code),
                       items         |-> items,
                       divisionTotal |-> Round2(SumSeq(TotalCosts(items)))])
    ELSE divs

\* _extract_excel_totals: every row is read top to bottom, and a marker row
\* with a non-zero amount overwrites the value found so far
Priced(row) == ~IsNone(row.currency) /\ Val(row.currency) # 0

\* the amount of the last of the rows hits, 0.0 when there is none
LastPriced(rows, hits) == IF hits = {} THEN 0 ELSE Val(rows[Greatest(hits)].currency)

\* lines 415-446, rows: the frame as EstRows gives it
TotalsIn(rows) ==
    [projectSubtotal   |-> LastPriced(rows, {i \in 1..Len(rows) :
                                                rows[i].has_project_subtotal /\ Priced(rows[i])}),
     overheadAndProfit |-> LastPriced(rows, {i \in 1..Len(rows) :
                                                rows[i].has_overhead_profit /\ Priced(rows[i])}),
     jobTotal          |-> LastPriced(rows, {i \in 1..Len(rows) :
                                                rows[i].has_job_total /\ Priced(rows[i])})]

_extract_excel_totals(df) == TotalsIn(EstRows(df))

ValidateTolerance == 10

\* _validate_contract: TRUE when it raises
_validate_contract(res) ==
    \/ Abs(res.grandTotalFromItems - SumSeq(DivisionTotals(res.divisions))) > ValidateTolerance
    \/ \E d \in 1..Len(res.divisions) : \E k \in 1..Len(res.divisions[d].items) :
          LET item == res.divisions[d].items[k]
          IN  \/ Round2(Val(item.quantity)) # Val(item.quantity)
              \/ Round2(item.materialCost) # item.materialCost
              \/ Round2(item.laborCost) # item.laborCost
              \/ Round2(item.subEquipCost) # item.subEquipCost
              \/ Round2(item.totalCost) # item.totalCost

DetIdle == /\ project_subtotal_raw = None /\ project_subtotal_idx = None
           /\ overhead_profit_raw = None /\ job_total_raw = None
           /\ current_division = None

InitEst ==
    /\ parser = "est"
    /\ sheet \in Sheets
    /\ pc = "start"
    /\ row_idx = 0
    /\ divisions = <<>>
    /\ result = None /\ error = ""
    /\ DetIdle /\ EstIdle /\ CallIdle /\ UploadIdle /\ history = <<>> /\ float_gt = {}

\* Step 1, line 65 (Step 2, the meta information, is computed with the result)
EstResolveHeaders ==
    /\ parser = "est" /\ pc = "start"
    /\ column_map' = _resolve_headers(EstFrame(sheet))
    /\ pc' = "scan"
    /\ UNCHANGED <<request, temp_file, tables, response, history, float_gt, parser, sheet, row_idx, project_subtotal_raw, project_subtotal_idx,
                   overhead_profit_raw, job_total_raw, current_division, divisions,
                   current_division_code, current_division_name, current_items,
                   result, error, fn, arg, ret>>

\* Step 3, one pass of the loop of _parse_divisions_and_items (lines 188-212);
\* an exception leaves through the handler of lines 99-100
EstScanRow ==
    /\ parser = "est" /\ pc = "scan"
    /\ row_idx < Len(EstFrame(sheet))
    /\ \E r \in {EstFrame(sheet)[row_idx + 1]} :
       \E division_info \in {_detect_division(EstRow[r], column_map)} :
           IF division_info.kind = "NameError"
           THEN /\ pc' = "raised"
                /\ error' = "Parse failed: name 'df' is not defined"
                /\ UNCHANGED <<divisions, current_division_code, current_division_name,
                               current_items, row_idx>>
           ELSE IF division_info.kind = "division"
           THEN /\ divisions' = EstCloseDivision(divisions, current_division_code,
                                                 current_division_name, current_items)
                /\ current_division_code' = Some(division_info.code)
                /\ current_division_name' = division_info.name
                /\ current_items' = <<>>
                /\ row_idx' = row_idx + 1
                /\ UNCHANGED <<pc, error>>
           ELSE /\ IF IsNone(current_division_code)
                   THEN current_items' = current_items
                   ELSE \E line_item \in {_parse_line_item(r, row_idx, column_map,
                                                           Val(current_division_code))} :
                            current_items' = IF IsNone(line_item) THEN current_items
                                             ELSE Append(current_items, Val(line_item))
                /\ row_idx' = row_idx + 1
                /\ UNCHANGED <<pc, error, divisions, current_division_code, current_division_name>>
    /\ UNCHANGED <<request, temp_file, tables, response, history, float_gt, parser, sheet, project_subtotal_raw, project_subtotal_idx,
                   overhead_profit_raw, job_total_raw, current_division, column_map,
                   result, fn, arg, ret>>

\* lines 75-94: the result built from the divisions and the totals of the sheet
EstResult(df, divs, excel_totals) ==
    [meta                |-> _extract_meta(df),
     divisions           |-> divs,
     projectSubtotal     |-> excel_totals.projectSubtotal,
     overheadAndProfit   |-> excel_totals.overheadAndProfit,
     jobTotal            |-> excel_totals.jobTotal,
     grandTotalFromItems |-> Round2(SumSeq(DivisionTotals(divs)))]

\* lines 215-224 and Steps 4-6 with the validation, lines 75-97
EstFinish ==
    /\ parser = "est" /\ pc = "scan"
    /\ row_idx >= Len(EstFrame(sheet))
    /\ \E res \in {EstResult(EstFrame(sheet),
                             EstCloseDivision(divisions, current_division_code,
                                              current_division_name, current_items),
                             _extract_excel_totals(EstFrame(sheet)))} :
           /\ divisions' = res.divisions
           /\ IF _validate_contract(res)
              THEN pc' = "raised" /\ error' = "Parse failed: grandTotalFromItems mismatch"
                   /\ result' = result
              ELSE pc' = "done" /\ error' = error /\ result' = Some(res)
    /\ UNCHANGED <<request, temp_file, tables, response, history, float_gt, parser, sheet, row_idx, project_subtotal_raw, project_subtotal_idx,
                   overhead_profit_raw, job_total_raw, current_division, column_map,
                   current_division_code, current_division_name, current_items,
                   fn, arg, ret>>

(***************************************************************************)
(* to_division_pack: the text block of one division                        *)
(***************************************************************************)
\* line_id.split('-')[-1]: what stands after the last dash
\* the text after the first dash of s
RECURSIVE AfterFirstDash(_)
AfterFirstDash(s) ==
    IF s = "" THEN "" ELSE IF CharAt(s, 1) = "-" THEN Tail(s) ELSE AfterFirstDash(Tail(s))

RECURSIVE LastDashPart(_)
LastDashPart(s) ==
    IF s = "" \/ CharAt(s, Len(s)) = "-" THEN ""
    ELSE LastDashPart(SubSeq(s, 1, Len(s) - 1)) \o CharAt(s, Len(s))

\* f"{x:.2f}" of an amount c in cents (the amounts of an item are whole cents;
\* no item of the catalogue has an amount of -0.0)
Fixed2(c) ==
    (IF c < 0 THEN "-" ELSE "") \o IntToStr(Abs(c) \div 100) \o "."
       \o IntToStr((Abs(c) % 100) \div 10) \o IntToStr(Abs(c) % 10)

\* str(x) of a float x of c cents, c >= 0
FloatStr(c) ==
    IntToStr(c \div 100) \o "." \o IntToStr((c % 100) \div 10)
       \o (IF c % 10 = 0 THEN "" ELSE IntToStr(c % 10))

\* f'"{v}"' if v else 'null', for an optional text
QuotedOrNull(o) == IF IsNone(o) \/ Val(o) = "" THEN "null" ELSE "\"" \o Val(o) \o "\""

\* lines 181-200: the line of one item
PackLine(item) ==
    "- [row=" \o (IF IsSubstring("-", item.lineId) THEN LastDashPart(item.lineId) ELSE "unknown")
       \o "] \"" \o item.tradeDescription \o "\" | qty="
       \o (IF IsNone(item.quantity) THEN "null" ELSE FloatStr(Val(item.quantity) \div 10))
       \o " | unit=" \o QuotedOrNull(item.unit)
       \o " | material=" \o Fixed2(item.materialCost \div 10)
       \o " | labor=" \o Fixed2(item.laborCost \div 10)
       \o " | subequip=" \o Fixed2(item.subEquipCost \div 10)
       \o " | total=" \o Fixed2(item.totalCost \div 10)
       \o " | scope=" \o QuotedOrNull(item.scopeNotes)
       \o " | est=" \o QuotedOrNull(item.estimatingNotes)

\* '\n'.join(lines)
RECURSIVE JoinLines(_)
JoinLines(lines) ==
    IF lines = <<>> THEN ""
    ELSE IF Len(lines) = 1 THEN lines[1]
    ELSE lines[1] \o "\n" \o JoinLines(Tail(lines))

to_division_pack(division) ==
    IF division.items = <<>> THEN ""
    ELSE JoinLines(<<"DIVISION_CODE: " \o division.divisionCode,
                     "DIVISION_NAME: " \o division.divisionName,
                     "ROWS:">>
                   \o [k \in 1..Len(division.items) |-> PackLine(division.items[k])])

\* a caller renders one division of the result the deterministic parse returned
DetPack ==
    /\ parser = "det" /\ pc = "done" /\ fn = ""
    /\ \E k \in 1..Len(Val(result).divisions) :
          /\ fn' = "to_division_pack"
          /\ arg' = IntToStr(k)
          /\ ret' = Some(to_division_pack(Val(result).divisions[k]))
    /\ UNCHANGED <<request, temp_file, tables, response, history, float_gt, parser, sheet, pc, row_idx, project_subtotal_raw,
                   project_subtotal_idx, overhead_profit_raw, job_total_raw,
                   current_division, divisions, column_map, current_division_code,
                   current_division_name, current_items, result, error>>

(***************************************************************************)
(* Direct calls of the normalizers of the two parsers                      *)
(***************************************************************************)
UnitWords == {"EA", "LF", "SF", "SY", "CY", "HR", "LS", "MO",
              "EACH", "LINEAR", "LINEAL", "LIN", "SQUARE", "SQ", "SQFT", "CUBIC", "HOUR", "HOURS",
              "LUMP", "LUMPSUM", "LOT", "MONTH", "MONTHS",
              "YEAR", "PLEASE", "UNITS", "BAGS", "E A", "EA.", " EA", "M0", "nan", "NAN", "", "12", "L/F"}

\* first letter upper case, the rest lower case
Capitalize(w) == IF w = "" THEN "" ELSE UpperChar(CharAt(w, 1)) \o Lower(Tail(w))

RawUnits == UnitWords \cup {Lower(w) : w \in UnitWords} \cup {Capitalize(w) : w \in UnitWords}

RawAmounts == {"", " ", "0", "0.00", "$0.00", "100", "$100.00", "$1,200.50", "1200.5", "-50", "$-3.10",
               "(50)", "0.004", "-0.004", "100.01", "5.", ".5", " 12 ", "1-2", "1.2.3", "-", ".",
               "--5", "abc", "N/A", "n/a", "TBD", "nan", "2 EA", "1,000", "3 @ $4"}

\* a column map that gives every field but division the column the sheets keep it in
DirectMap ==
    ("tradeDescription" :> 2) @@ ("quantity" :> 3) @@ ("unit" :> 4) @@ ("materialCost" :> 7) @@
    ("laborCost" :> 9) @@ ("subEquipCost" :> 11) @@ ("totalCost" :> 12) @@
    ("scopeNotes" :> 13) @@ ("estimatingNotes" :> 14)

HelperCalls == ({"_normalize_unit", "_extract_unit"} \X RawUnits)
                  \cup ({"_parse_currency", "_parse_number", "_extract_quantity", "_extract_cost"} \X RawAmounts)
                  \cup ({"_parse_line_item", "_detect_division"} \X DOMAIN RowCat)
                  \cup ({"to_division_pack"} \X {"Site Work", ""})

InitCall ==
    /\ parser = "call"
    /\ \E c \in HelperCalls : fn = c[1] /\ arg = c[2]
    /\ ret = None
    /\ sheet = <<>>
    /\ pc = "start"
    /\ row_idx = 0
    /\ divisions = <<>>
    /\ result = None /\ error = ""
    /\ DetIdle /\ EstIdle /\ UploadIdle /\ history = <<>> /\ float_gt = {}

\* one call of a helper; to_division_pack is called with a division named arg
\* that has no items, _extract_unit and _extract_quantity are called with a
\* row whose cell holds arg, _parse_line_item (as row 7 of division '01') and
\* _detect_division with the row of the catalogue that arg names.  What
\* _detect_division gives says whether it returned or raised.
CallHelper ==
    /\ parser = "call" /\ pc = "start"
    /\ ret' = Some(CASE fn = "_normalize_unit" -> _normalize_unit(arg)
                     [] fn = "_extract_unit"   -> UnitOfValue(arg)
                     [] fn = "_extract_quantity" -> Some(QuantityOfValue(arg))
                     [] fn = "_extract_cost"   -> Some(CostOfValue(arg))
                     [] fn = "_parse_line_item" -> _parse_line_item(arg, 7, DirectMap, "01")
                     [] fn = "_detect_division" -> _detect_division(EstRow[arg], DirectMap)
                     [] fn = "_parse_currency" -> Some(_parse_currency(arg))
                     [] fn = "_parse_number"   -> _parse_number(arg)
                     [] fn = "to_division_pack" ->
                            to_division_pack([divisionCode |-> "01", divisionName |-> arg,
                                              items |-> <<>>]))
    /\ pc' = "done"
    /\ UNCHANGED <<request, temp_file, tables, response, history, float_gt, parser, sheet, row_idx, project_subtotal_raw, project_subtotal_idx,
                   overhead_profit_raw, job_total_raw, current_division, divisions,
                   column_map, current_division_code, current_division_name, current_items,
                   result, error, fn, arg>>

Init == InitDet \/ InitEst \/ InitCall

Next == \/ DetFindSummaryRows \/ DetScanRow \/ DetCloseLast \/ DetReconcile \/ DetPack
        \/ EstResolveHeaders \/ EstScanRow \/ EstFinish
        \/ CallHelper

Spec == Init /\ [][Next]_vars

(***************************************************************************)
(* Several parses, one after the other, in one process                     *)
(***************************************************************************)
MaxRuns == 3

\* the sheets that are parsed again and again: one that parses, one that is a
\* cent off its subtotal, one that does not reconcile, one without a Project
\* Subtotal row, one with two divisions and all three summary rows
AgainSheets ==
    { <<"client", "project", "date", "blank", "blank", "blank", "hdr_1", "item", "ps_100">>,
      <<"client", "project", "date", "blank", "blank", "blank", "hdr_1", "item", "ps_cent">>,
      <<"client", "project", "date", "blank", "blank", "blank", "hdr_1", "item", "item", "ps_100">>,
      <<"client", "project", "date", "blank", "blank", "blank", "hdr_1", "item">>,
      <<"client", "project", "date", "early_hdr", "early_item", "labels",
        "hdr_02", "credit", "hdr_1", "item", "skip", "zero", "ps_200", "op", "jt">> }

\* what a finished parse gave its caller
Outcome ==
    [parser |-> parser, sheet |-> sheet, pc |-> pc, result |-> result, error |-> error]

\* the list of the previous call still there
LeftOver(old) == old

\* line 41, divisions = []: a new list, whatever the previous call built
FreshList(old) == <<>>

InitTwice == (InitDet \/ InitEst) /\ sheet \in AgainSheets

\* the parse has returned or raised and the next call begins: every name of
\* the function body is bound anew (lines 15-18, 41-42; estimate_parser.py 186-189)
ParseAgain ==
    /\ parser \in {"det", "est"} /\ pc \in {"done", "raised"}
    /\ Len(history) < MaxRuns - 1
    /\ history' = Append(history, Outcome)
    /\ parser' \in {"det", "est"}
    /\ sheet' \in AgainSheets
    /\ pc' = "start"
    /\ row_idx' = 0
    /\ project_subtotal_raw' = None /\ project_subtotal_idx' = None
    /\ overhead_profit_raw' = None /\ job_total_raw' = None
    /\ current_division' = None
    /\ divisions' = FreshList(divisions)
    /\ column_map' = <<>>
    /\ current_division_code' = None /\ current_division_name' = "" /\ current_items' = <<>>
    /\ result' = None /\ error' = ""
    /\ UNCHANGED <<fn, arg, ret, float_gt, request, temp_file, tables, response>>

NextTwice == \/ DetFindSummaryRows \/ DetScanRow \/ DetCloseLast \/ DetReconcile
             \/ EstResolveHeaders \/ EstScanRow \/ EstFinish
             \/ ParseAgain

SpecTwice == InitTwice /\ [][NextTwice]_vars

(***************************************************************************)
(* routes/ai_budget.py: smart_budget_upload                                *)
(***************************************************************************)
MaxUploadRows == 10

\* the project_id of the request
ProjectId == "p1"

\* the check taken as passed without a look at the rows
ProjectCheckAny(projects, project_id) == TRUE

\* lines 92-93, project_check.data is not empty
ProjectCheck(projects, project_id) == project_id \in projects

\* lines 69-82: the storage record of one item; unit_cost, a float quotient, is
\* kept as numerator and denominator
BudgetItem(division, item) ==
    [division    |-> division.divisionCode,
     description |-> item.tradeDescription,
     quantity    |-> item.quantity,
     unit        |-> item.unit,
     unit_cost   |-> IF ~IsNone(item.quantity) /\ Val(item.quantity) > 0
                     THEN <<item.totalCost, Val(item.quantity)>> ELSE <<0, 1>>,
     total_cost  |-> item.totalCost,
     notes       |-> "Material: $" \o Fixed2(item.materialCost \div 10)
                        \o ", Labor: $" \o Fixed2(item.laborCost \div 10)
                        \o ", Sub/Equip: $" \o Fixed2(item.subEquipCost \div 10)
                        \o (IF IsNone(item.scopeNotes) \/ Val(item.scopeNotes) = "" THEN ""
                            ELSE " | Scope: " \o Val(item.scopeNotes))
                        \o (IF IsNone(item.estimatingNotes) \/ Val(item.estimatingNotes) = "" THEN ""
                            ELSE " | Notes: " \o Val(item.estimatingNotes))]

\* lines 66-83: the items of all divisions, flat
RECURSIVE BudgetItemsOf(_)
BudgetItemsOf(divs) ==
    IF divs = <<>> THEN <<>>
    ELSE [k \in 1..Len(divs[1].items) |-> BudgetItem(divs[1], divs[1].items[k])]
            \o BudgetItemsOf(Tail(divs))

\* a request has arrived: a file of at most MaxUploadRows rows, a database with
\* or without the project, nothing stored for it yet
InitUpload ==
    /\ parser = "det"
    /\ sheet \in {s \in Sheets : Len(s) <= MaxUploadRows}
    /\ pc = "idle"
    /\ row_idx = 0
    /\ divisions = <<>>
    /\ result = None /\ error = ""
    /\ DetIdle /\ EstIdle /\ CallIdle /\ history = <<>> /\ float_gt = {}
    /\ request = "received" /\ temp_file = FALSE /\ response = 0
    /\ \E projects \in {{}, {ProjectId}} :
          tables = [projects |-> projects, files |-> <<>>, budget_items |-> <<>>, audit_logs |-> <<>>]

\* lines 20-57: the file is validated, analysed and written to temp_file_path,
\* and parse_estimate_xlsx is called
UploadReceive ==
    /\ request = "received"
    /\ \E file_ext \in {"xlsx", "csv", "pdf"}, too_large \in BOOLEAN, recommended_sheet \in BOOLEAN :
          IF file_ext \notin {"csv", "xlsx", "xls"} \/ too_large \/ ~recommended_sheet
          THEN /\ request' = "responded" /\ response' = 400
               /\ UNCHANGED <<temp_file, pc>>
          ELSE /\ request' = "parsing" /\ response' = response
               /\ temp_file' = TRUE
               /\ pc' = "start"
    /\ UNCHANGED <<tables, history, float_gt, parser, sheet, row_idx, project_subtotal_raw,
                   project_subtotal_idx, overhead_profit_raw, job_total_raw, current_division,
                   divisions, column_map, current_division_code, current_division_name,
                   current_items, result, error, fn, arg, ret>>

\* lines 58-86 and 153-157: the parse has returned or raised; the finally clause
\* removes the file, an exception becomes a 500, an empty item list a 400
UploadParsed ==
    /\ request = "parsing" /\ pc \in {"done", "raised"}
    /\ temp_file' = FALSE
    /\ IF pc = "raised"
       THEN request' = "responded" /\ response' = 500
       ELSE IF BudgetItemsOf(Val(result).divisions) = <<>>
       THEN request' = "responded" /\ response' = 400
       ELSE request' = "parsed" /\ response' = response
    /\ UNCHANGED <<tables, history, float_gt, parser, sheet, pc, row_idx, project_subtotal_raw,
                   project_subtotal_idx, overhead_profit_raw, job_total_raw, current_division,
                   divisions, column_map, current_division_code, current_division_name,
                   current_items, result, error, fn, arg, ret>>

\* lines 89-94
UploadCheckProject ==
    /\ request = "parsed"
    /\ IF ProjectCheck(tables.projects, ProjectId)
       THEN request' = "checked" /\ response' = response
       ELSE request' = "responded" /\ response' = 404
    /\ UNCHANGED <<temp_file, tables, history, float_gt, parser, sheet, pc, row_idx,
                   project_subtotal_raw, project_subtotal_idx, overhead_profit_raw,
                   job_total_raw, current_division, divisions, column_map,
                   current_division_code, current_division_name, current_items,
                   result, error, fn, arg, ret>>

\* lines 96-137 and 139-157: the next of the three inserts, files, budget_items,
\* audit_logs, each a request of its own to the database that stores its rows
\* or raises; after the third the handler returns
UploadInsert ==
    /\ request \in {"checked", "files_stored", "items_stored"}
    /\ \E stored \in BOOLEAN :
          IF ~stored
          THEN request' = "responded" /\ response' = 500 /\ tables' = tables
          ELSE CASE request = "checked" ->
                      /\ tables' = [tables EXCEPT !.files =
                                       Append(@, [project_id |-> ProjectId, file_category |-> "budget"])]
                      /\ request' = "files_stored" /\ response' = response
                 [] request = "files_stored" ->
                      /\ tables' = [tables EXCEPT !.budget_items =
                                       @ \o [k \in 1..Len(BudgetItemsOf(Val(result).divisions)) |->
                                               [project_id |-> ProjectId,
                                                item |-> BudgetItemsOf(Val(result).divisions)[k]]]]
                      /\ request' = "items_stored" /\ response' = response
                 [] request = "items_stored" ->
                      /\ tables' = [tables EXCEPT !.audit_logs =
                                       Append(@, [project_id      |-> ProjectId,
                                                  action          |-> "ai_budget_uploaded",
                                                  items_count     |-> Len(BudgetItemsOf(Val(result).divisions)),
                                                  divisions_found |-> Len(Val(result).divisions),
                                                  grand_total     |-> Val(result).jobTotal])]
                      /\ request' = "responded" /\ response' = 200
    /\ UNCHANGED <<temp_file, history, float_gt, parser, sheet, pc, row_idx,
                   project_subtotal_raw, project_subtotal_idx, overhead_profit_raw,
                   job_total_raw, current_division, divisions, column_map,
                   current_division_code, current_division_name, current_items,
                   result, error, fn, arg, ret>>

NextUpload == \/ UploadReceive
              \/ DetFindSummaryRows \/ DetScanRow \/ DetCloseLast \/ DetReconcile
              \/ UploadParsed \/ UploadCheckProject \/ UploadInsert

\* the handler runs each of its steps to the end: a request that has begun is answered
SpecUploadFair == InitUpload /\ [][NextUpload]_vars /\ WF_vars(NextUpload)

(***************************************************************************)
(* The properties                                                          *)
(***************************************************************************)
Returned == parser \in {"det", "est"} /\ pc = "done"

\* the rows of the sheet that carry a marker in column C (0-based indices)
SubtotalRows == {i \in 0..(Len(sheet) - 1) : DetRow[sheet[i + 1]].is_project_subtotal}
OverheadProfitRows == {i \in 0..(Len(sheet) - 1) : DetRow[sheet[i + 1]].is_overhead_profit}
JobTotalRows == {i \in 0..(Len(sheet) - 1) : DetRow[sheet[i + 1]].is_job_total}

\* |declared project subtotal - sum of divisionTotal| of the deterministic parse
SubtotalGap == Abs(OrZero(project_subtotal_raw) - SumSeq(DivisionTotals(divisions)))

\* C1: when the deterministic parser returns a result, the declared project
\* subtotal and the sum of divisionTotal over the emitted divisions differ by at
\* most 0.01; when they differ by more, the parse has raised and there is no result.
C1_Reconciled ==
    parser = "det" =>
        /\ pc = "done" =>
              /\ ~IsNone(result)
              /\ Abs(OrZero(project_subtotal_raw)
                     - SumSeq(DivisionTotals(Val(result).divisions))) <= Tolerance
              /\ Abs(Val(result).projectSubtotal
                     - SumSeq(DivisionTotals(Val(result).divisions))) <= Tolerance
        /\ (pc \in {"done", "raised"} /\ SubtotalGap > Tolerance) =>
              /\ pc = "raised" /\ IsNone(result)
              /\ error = "Parsed items don't reconcile with Project Subtotal"

\* a returned result with two divisions that add up to the declared 200.00
C1_Witness ==
    /\ parser = "det" /\ pc = "done"
    /\ Len(Val(result).divisions) = 2
    /\ Val(result).projectSubtotal = 200000
    /\ SubtotalGap = 0

\* C2: EstimateParser.parse_estimate_xlsx never returns a result whose
\* projectSubtotal and grandTotalFromItems differ by more than 0.01.
C2_EstReconciled ==
    (parser = "est" /\ pc = "done") =>
        Abs(Val(result).projectSubtotal - Val(result).grandTotalFromItems) <= Tolerance

\* C3: a sheet none of whose rows carries the 'project subtotal' marker makes the
\* parse fail with an error that names the Project Subtotal row, and no result
\* is returned.
C3_MissingSubtotalFatal ==
    (parser \in {"det", "est"} /\ pc \in {"done", "raised"} /\ SubtotalRows = {}) =>
        /\ pc = "raised" /\ IsNone(result)
        /\ IsSubstring("Project Subtotal", error)

\* C4: a sheet whose Project Subtotal row reconciles with the items is parsed
\* successfully by the deterministic parser whether or not it has a 'job total'
\* row or an 'overhead'+'profit' row, and the result has jobTotal = 0.0 when the
\* first is missing and overheadAndProfit = 0.0 when the second is.
C4_MissingTotalsDefault ==
    parser = "det" =>
        /\ (pc = "done" /\ JobTotalRows = {}) => Val(result).jobTotal = 0
        /\ (pc = "done" /\ OverheadProfitRows = {}) => Val(result).overheadAndProfit = 0
        /\ pc = "raised" => (SubtotalRows = {} \/ SubtotalGap >= Tolerance)

\* a returned result with a division, of a sheet with neither of the two rows
C4_Witness ==
    /\ parser = "det" /\ pc = "done"
    /\ JobTotalRows = {} /\ OverheadProfitRows = {}
    /\ Val(result).divisions # <<>>
    /\ Val(result).jobTotal = 0 /\ Val(result).overheadAndProfit = 0

\* every header row with this code that the item scan reads is followed at once
\* by another header row or by the Project Subtotal row
OnlyEmptyHeaders(code) ==
    \A i \in FirstItemRow..(Val(project_subtotal_idx) - 1) :
        (DetRow[sheet[i + 1]].is_division /\ ZFill2(DetRow[sheet[i + 1]].div_code_raw) = code)
            => (i + 1 = Val(project_subtotal_idx) \/ DetRow[sheet[i + 2]].is_division)

\* C5: every division that is emitted has at least one item; a header whose
\* division gets no accepted item before the next header or the end of the
\* scan yields no division.
C5_NoEmptyDivision ==
    /\ \A k \in 1..Len(divisions) : divisions[k].items # <<>>
    /\ Returned => \A k \in 1..Len(Val(result).divisions) : Val(result).divisions[k].items # <<>>
    /\ (parser = "det" /\ pc = "done") =>
          \A code \in {"01", "02"} :
              OnlyEmptyHeaders(code) =>
                  \A k \in 1..Len(Val(result).divisions) :
                      Val(result).divisions[k].divisionCode # code

\* header '01' at once followed by header '02': the result has '02' and no '01'
C5_Witness ==
    /\ parser = "det" /\ pc = "done"
    /\ Len(sheet) > FirstItemRow + 2
    /\ sheet[FirstItemRow + 1] = "hdr_1" /\ sheet[FirstItemRow + 2] = "hdr_02"
    /\ Len(Val(result).divisions) = 1
    /\ Val(result).divisions[1].divisionCode = "02"

\* C6: every line item of a returned result has materialCost, laborCost,
\* subEquipCost and totalCost >= 0.
C6_NonNegativeCosts ==
    Returned =>
        \A d \in 1..Len(Val(result).divisions) :
            \A k \in 1..Len(Val(result).divisions[d].items) :
                /\ Val(result).divisions[d].items[k].materialCost >= 0
                /\ Val(result).divisions[d].items[k].laborCost >= 0
                /\ Val(result).divisions[d].items[k].subEquipCost >= 0
                /\ Val(result).divisions[d].items[k].totalCost >= 0

\* C7: no line item of a returned result has its four emitted costs all 0.0.
C7_NoAllZeroItem ==
    Returned =>
        \A d \in 1..Len(Val(result).divisions) :
            \A k \in 1..Len(Val(result).divisions[d].items) :
                \/ Val(result).divisions[d].items[k].materialCost # 0
                \/ Val(result).divisions[d].items[k].laborCost # 0
                \/ Val(result).divisions[d].items[k].subEquipCost # 0
                \/ Val(result).divisions[d].items[k].totalCost # 0

\* the index of the first header row with this code that the item scan reads
FirstHeader(code) ==
    Least({i \in FirstItemRow..(Val(project_subtotal_idx) - 1) :
              DetRow[sheet[i + 1]].is_division /\ ZFill2(DetRow[sheet[i + 1]].div_code_raw) = code})

\* C8: no two divisions of a returned result share a divisionCode, and the
\* divisions stand in the order in which their codes first appear in the sheet.
C8_UniqueDivisionCodes ==
    /\ Returned =>
          \A k, l \in 1..Len(Val(result).divisions) :
              k # l => Val(result).divisions[k].divisionCode # Val(result).divisions[l].divisionCode
    /\ (parser = "det" /\ pc = "done") =>
          \A k, l \in 1..Len(Val(result).divisions) :
              k < l => FirstHeader(Val(result).divisions[k].divisionCode)
                          < FirstHeader(Val(result).divisions[l].divisionCode)

TwoDigits(code) == Len(code) = 2 /\ AllDigits(code)

\* the header numeral, left-padded with '0' when it is one digit
Padded(numeral) == IF Len(numeral) = 1 THEN "0" \o numeral ELSE numeral

\* C9: every divisionCode, of the divisions emitted and of the division under
\* construction, is exactly two decimal digits: the header numeral left-padded
\* with '0' when it has one digit, unchanged when it has two.
C9_TwoDigitCodes ==
    /\ \A k \in 1..Len(divisions) : TwoDigits(divisions[k].divisionCode)
    /\ ~IsNone(current_division) => TwoDigits(Val(current_division).divisionCode)
    /\ ~IsNone(current_division_code) => TwoDigits(Val(current_division_code))
    /\ Returned => \A k \in 1..Len(Val(result).divisions) :
                       TwoDigits(Val(result).divisions[k].divisionCode)
    /\ (parser = "det" /\ pc = "scan" /\ row_idx > FirstItemRow
           /\ DetRow[sheet[row_idx]].is_division) =>
          Val(current_division).divisionCode = Padded(DetRow[sheet[row_idx]].div_code_raw)
    /\ (parser = "est" /\ pc = "scan" /\ row_idx > 0
           /\ ~EstRow[EstFrame(sheet)[row_idx]].first_isna
           /\ IsDivisionCode(EstRow[EstFrame(sheet)[row_idx]].first_cell)) =>
          Val(current_division_code) = Padded(EstRow[EstFrame(sheet)[row_idx]].first_cell)

\* a returned result with the divisions '01' (header numeral 1) and '02'
C9_Witness ==
    /\ parser = "det" /\ pc = "done"
    /\ Len(Val(result).divisions) = 2
    /\ Val(result).divisions[1].divisionCode = "01"
    /\ Val(result).divisions[2].divisionCode = "02"

\* the raw unit is, case and surrounding blanks apart, a canonical code or a
\* synonym of the table
KnownUnit(raw) == Upper(Strip(raw)) \in valid_units \cup DOMAIN unit_map

\* C10: the unit of a line item is null or one of EA, LF, SF, SY, CY, HR, LS, MO,
\* and a raw unit that is neither a canonical code nor a synonym yields null.
C10_UnitClosure ==
    /\ Returned =>
          \A d \in 1..Len(Val(result).divisions) :
              \A k \in 1..Len(Val(result).divisions[d].items) :
                  \/ IsNone(Val(result).divisions[d].items[k].unit)
                  \/ Val(Val(result).divisions[d].items[k].unit) \in valid_units
    /\ (parser = "call" /\ pc = "done" /\ fn \in {"_normalize_unit", "_extract_unit"}) =>
          /\ IsNone(Val(ret)) \/ Val(Val(ret)) \in valid_units
          /\ ~KnownUnit(arg) => IsNone(Val(ret))

\* the totalCost the rule gives for a row, from the costs read off its cells
ExpectedTotal(row) ==
    IF row.total_cost > 0 THEN Round2(row.total_cost)
    ELSE Round2(row.material_cost + row.labor_cost + row.subequip_cost)

\* the item at the end of the open division was made from the row read last
LastRowAccepted ==
    /\ parser = "det" /\ pc = "scan" /\ row_idx > FirstItemRow
    /\ ~IsNone(current_division) /\ Val(current_division).items # <<>>
    /\ Val(current_division).items[Len(Val(current_division).items)].lineId
          = LineId(Val(current_division).divisionCode, DetRow[sheet[row_idx]].slug, row_idx - 1)

\* C11: the totalCost of an accepted row is the rounded value of its total-cost
\* cell when that value is strictly positive, and the rounded sum of its
\* material, labor and sub/equip costs otherwise.
C11_TotalCostRule ==
    /\ LastRowAccepted =>
          Val(current_division).items[Len(Val(current_division).items)].totalCost
             = ExpectedTotal(DetRow[sheet[row_idx]])
    /\ (parser = "call" /\ pc = "done" /\ fn = "_parse_line_item" /\ ~IsNone(Val(ret))) =>
          Val(Val(ret)).totalCost = ExpectedTotal(DetRow[arg])

\* every closed division carries the rounded sum of its items' totalCost
TotalsAreSums(divs) ==
    \A k \in 1..Len(divs) : divs[k].divisionTotal = Round2(SumSeq(TotalCosts(divs[k].items)))

\* the divisions closed before a step are the same after it
ClosedKept ==
    /\ Len(divisions') >= Len(divisions)
    /\ \A k \in 1..Len(divisions) : divisions'[k] = divisions[k]

C12_TotalsInv ==
    /\ TotalsAreSums(divisions)
    /\ ~IsNone(result) => TotalsAreSums(Val(result).divisions)
    /\ ~IsNone(current_division) => "divisionTotal" \notin DOMAIN Val(current_division)

\* C12: a division's divisionTotal is the rounded sum of totalCost over its
\* items; the division under construction has none, it is set when the
\* division is closed, and a closed division is never changed again (no item
\* is appended to it, its total is not assigned a second time).
C12_DivisionTotalOnce == [](C12_TotalsInv) /\ [][ClosedKept]_vars

C12_Witness ==
    /\ parser = "det" /\ pc = "scan"
    /\ Len(divisions) >= 1 /\ Len(divisions[1].items) >= 2
    /\ ~IsNone(current_division) /\ Val(current_division).items # <<>>

\* the cell is blank or float() does not take it
NoNumber(cell) == Strip(cell) = "" \/ IsNone(PyFloat(cell))

\* C13: quantity is null whenever the quantity cell is blank or is not a
\* number, never a numeric default; a row with blank quantity, unit 'EACH' and
\* a positive total is emitted with quantity null and unit 'EA'.
C13_QuantityNull ==
    /\ (LastRowAccepted /\ NoNumber(RowCat[sheet[row_idx]][4])) =>
          IsNone(Val(current_division).items[Len(Val(current_division).items)].quantity)
    /\ (parser = "call" /\ pc = "done" /\ fn = "_extract_quantity" /\ NoNumber(arg)) =>
          IsNone(Val(ret))
    /\ (parser = "call" /\ pc = "done" /\ fn = "_parse_line_item" /\ ~IsNone(Val(ret))
           /\ NoNumber(RowCat[arg][4])) =>
          IsNone(Val(Val(ret)).quantity)
    /\ (parser = "call" /\ pc = "done" /\ fn = "_parse_line_item" /\ arg = "item") =>
          /\ ~IsNone(Val(ret))
          /\ Val(Val(ret)).unit = Some("EA")
          /\ Val(Val(ret)).totalCost = 100000

\* the items of a list of divisions, with the code of the division they are in
RECURSIVE ItemsOf(_)
ItemsOf(divs) ==
    IF divs = <<>> THEN <<>>
    ELSE [k \in 1..Len(divs[1].items) |-> [code |-> divs[1].divisionCode, item |-> divs[1].items[k]]]
            \o ItemsOf(Tail(divs))

\* the items the deterministic parse has accepted so far, in the order of acceptance
ScannedItems ==
    ItemsOf(divisions) \o
    (IF pc = "scan" /\ ~IsNone(current_division) THEN ItemsOf(<<Val(current_division)>>) ELSE <<>>)

\* C14: within one parse no two line items, of the same or of different
\* divisions, have the same lineId, and each lineId is the one built from the
\* item's division code, its description and the index of a scanned row.
C14_UniqueLineIds ==
    parser = "det" =>
       /\ \A j, k \in 1..Len(ScannedItems) :
             ScannedItems[j].item.lineId = ScannedItems[k].item.lineId => j = k
       /\ \A k \in 1..Len(ScannedItems) :
             \E i \in FirstItemRow..(row_idx - 1) :
                /\ DetRow[sheet[i + 1]].description = ScannedItems[k].item.tradeDescription
                /\ ScannedItems[k].item.lineId
                      = LineId(ScannedItems[k].code, DetRow[sheet[i + 1]].slug, i)

\* a returned result with two items of one description in one division, and an
\* item whose slug was cut to its first 24 characters
C14_Witness ==
    /\ parser = "det" /\ pc = "done"
    /\ \E j, k \in 1..Len(ScannedItems) :
          /\ j # k /\ ScannedItems[j].code = ScannedItems[k].code
          /\ ScannedItems[j].item.tradeDescription = ScannedItems[k].item.tradeDescription
    /\ \E k \in 1..Len(ScannedItems) : Len(ScannedItems[k].item.tradeDescription) > SlugLen

MatchesSkip(description) == \E w \in est_skip_patterns : EndsWith(Lower(description), w)

\* C16: a row whose description matches a skip pattern (subtotal, project
\* subtotal, overhead, profit, job total, payment terms, accepted by, terms,
\* warranty, contingency, fee) is never a line item, whatever its costs and
\* wherever it lies; the value of the Project Subtotal row is the returned
\* projectSubtotal.
C16_SkipRowsNeverItems ==
    /\ parser = "det" =>
          \A k \in 1..Len(ScannedItems) : ~MatchesSkip(ScannedItems[k].item.tradeDescription)
    /\ (parser = "call" /\ pc = "done" /\ fn = "_parse_line_item"
           /\ MatchesSkip(Strip(RowCat[arg][3]))) => IsNone(Val(ret))
    /\ (parser = "det" /\ pc = "done") =>
          Val(result).projectSubtotal
             = Round2(DetRow[sheet[Greatest(SubtotalRows) + 1]].total_cost)

\* the rows i..hi-1 that are accepted as items, in row order, each with the code
\* of the nearest division header above it (code: that of the header above row i)
RECURSIVE AcceptedRows(_, _, _, _)
AcceptedRows(df, i, hi, code) ==
    IF i >= hi THEN <<>>
    ELSE IF DetRow[df[i + 1]].is_division
    THEN AcceptedRows(df, i + 1, hi, Some(ZFill2(DetRow[df[i + 1]].div_code_raw)))
    ELSE IF ~IsNone(code) /\ IsItemRow(DetRow[df[i + 1]])
    THEN <<[code |-> Val(code), item |-> BuildItem(DetRow[df[i + 1]], i, Val(code))]>>
            \o AcceptedRows(df, i + 1, hi, code)
    ELSE AcceptedRows(df, i + 1, hi, code)

\* no accepted item is lost, moved to another division or out of order
C17_ItemsKept ==
    /\ parser = "det" => ScannedItems = AcceptedRows(sheet, FirstItemRow, row_idx, None)
    /\ parser = "est" => current_items = <<>> /\ divisions = <<>>

\* the step closes the open division: it reads a header row or ends the scan
ClosingStep ==
    /\ parser = "det" /\ pc = "scan"
    /\ \/ pc' = "reconcile"
       \/ row_idx < Val(project_subtotal_idx) /\ DetRow[sheet[row_idx + 1]].is_division

\* a closing step emits the open division once, with its items as they are, when
\* it has any; no other step emits a division
C17_Step ==
    IF ClosingStep /\ ~IsNone(current_division) /\ Val(current_division).items # <<>>
    THEN /\ Len(divisions') = Len(divisions) + 1
         /\ SubSeq(divisions', 1, Len(divisions)) = divisions
         /\ divisions'[Len(divisions')].divisionCode = Val(current_division).divisionCode
         /\ divisions'[Len(divisions')].divisionName = Val(current_division).divisionName
         /\ divisions'[Len(divisions')].items = Val(current_division).items
    ELSE divisions' = divisions

\* C17: every division that has an accepted item is emitted exactly once, at
\* the next division header or at the end of the scan, with all its items in
\* the order they were added; one division at most is open, and no accepted
\* item is lost or moved to another division.
C17_EmittedOnce == [](C17_ItemsKept) /\ [][C17_Step]_vars

\* a returned result whose first division was closed by a header with two items
\* and whose second was closed by the end of the scan
C17_Witness ==
    /\ parser = "det" /\ pc = "done"
    /\ Len(Val(result).divisions) = 2
    /\ Len(Val(result).divisions[1].items) = 2
    /\ Len(Val(result).divisions[2].items) >= 1

\* the value of the total cell of the lowest of the rows, None when there is no row
BottomMost(rows) ==
    IF rows = {} THEN None ELSE Some(DetRow[sheet[Greatest(rows) + 1]].total_cost)

\* C18: the summary scan takes projectSubtotal, overheadAndProfit and jobTotal
\* each from the matching row with the largest row index; a match higher up
\* never replaces it, also when its value is 0.0.
C18_BottomMostWins ==
    (parser = "det" /\ pc # "start") =>
       /\ project_subtotal_raw = BottomMost(SubtotalRows)
       /\ project_subtotal_idx = (IF SubtotalRows = {} THEN None ELSE Some(Greatest(SubtotalRows)))
       /\ overhead_profit_raw = BottomMost(OverheadProfitRows)
       /\ job_total_raw = BottomMost(JobTotalRows)
       /\ pc = "done" =>
             /\ Val(result).projectSubtotal = Round2(OrZero(BottomMost(SubtotalRows)))
             /\ Val(result).overheadAndProfit = Round2(OrZero(BottomMost(OverheadProfitRows)))
             /\ Val(result).jobTotal = Round2(OrZero(BottomMost(JobTotalRows)))

\* a returned result on a sheet with two rows for each label, where the lowest
\* Overhead and Profit and Job Total rows hold 0 and the ones above them do not
C18_Witness ==
    /\ parser = "det" /\ pc = "done"
    /\ Cardinality(SubtotalRows) = 2
    /\ \E i \in OverheadProfitRows : DetRow[sheet[i + 1]].total_cost > 0
    /\ \E i \in JobTotalRows : DetRow[sheet[i + 1]].total_cost > 0
    /\ Val(result).overheadAndProfit = 0 /\ Val(result).jobTotal = 0
    /\ Val(result).projectSubtotal = 100000

\* the first column of the catalogue row r is a bare one- or two-digit numeral
NumeralFirst(r) == IsDivisionCode(Strip(RowCat[r][1]))

\* the row EstimateParser reads, or has just read, is a numeral-first row
EstAtHeader(i) ==
    /\ parser = "est" /\ i >= 1 /\ i <= Len(EstFrame(sheet))
    /\ NumeralFirst(EstFrame(sheet)[i])

\* C19: a row whose first column is a bare one- or two-digit numeral is a
\* division header, whatever its description (also one that matches a skip
\* pattern): it opens the division with the zero-padded numeral as code and the
\* row's description as name, and it adds no line item.
C19_HeaderBeforeSkip ==
    /\ (parser = "det" /\ pc = "scan" /\ row_idx > FirstItemRow /\ NumeralFirst(sheet[row_idx])) =>
          current_division = Some([divisionCode |-> Padded(Strip(RowCat[sheet[row_idx]][1])),
                                   divisionName |-> Strip(RowCat[sheet[row_idx]][3]),
                                   items        |-> <<>>])
    /\ (pc = "scan" /\ EstAtHeader(row_idx)) =>
          /\ current_division_code = Some(Padded(Strip(RowCat[EstFrame(sheet)[row_idx]][1])))
          /\ current_division_name = Strip(RowCat[EstFrame(sheet)[row_idx]][3])
          /\ current_items = <<>>
    /\ (parser = "call" /\ pc = "done" /\ fn = "_detect_division" /\ NumeralFirst(arg)) =>
          Val(ret) = [kind |-> "division", code |-> Padded(Strip(RowCat[arg][1])),
                      name |-> Strip(RowCat[arg][3])]

\* the description of the catalogue row r, and what follows its first two characters
DescOf(r) == Strip(RowCat[r][3])
DashRest(r) == LStrip(SubSeq(DescOf(r), 3, Len(DescOf(r))))

\* the first column of r is no numeral and its description is two digits, a
\* dash and a text, as in '02 - Site Work'
DashHeader(r) ==
    /\ ~NumeralFirst(r)
    /\ Len(DescOf(r)) >= 4 /\ AllDigits(SubSeq(DescOf(r), 1, 2))
    /\ DashRest(r) # "" /\ SubSeq(DashRest(r), 1, 1) = "-"
    /\ Strip(Tail(DashRest(r))) # ""

\* the division such a row opens
DashDivision(r) ==
    [code |-> SubSeq(DescOf(r), 1, 2), name |-> Strip(Tail(DashRest(r)))]

\* C20: a row whose first column is not a bare numeral and whose description is
\* 'two digits, dash, free text' is a division header, the digits its code and
\* the text its name: it closes the open division and opens the new one, it is
\* no line item, and the items after it go to the new division.
C20_DashHeader ==
    /\ (parser = "det" /\ pc = "scan" /\ row_idx > FirstItemRow /\ DashHeader(sheet[row_idx])) =>
          current_division = Some([divisionCode |-> DashDivision(sheet[row_idx]).code,
                                   divisionName |-> DashDivision(sheet[row_idx]).name,
                                   items        |-> <<>>])
    /\ (parser = "est" /\ pc = "scan" /\ row_idx >= 1 /\ DashHeader(EstFrame(sheet)[row_idx])) =>
          /\ current_division_code = Some(DashDivision(EstFrame(sheet)[row_idx]).code)
          /\ current_division_name = DashDivision(EstFrame(sheet)[row_idx]).name
          /\ current_items = <<>>
    /\ (parser = "call" /\ pc = "done" /\ fn = "_detect_division" /\ DashHeader(arg)) =>
          Val(ret) = [kind |-> "division", code |-> DashDivision(arg).code,
                      name |-> DashDivision(arg).name]

\* the larger of the row's total cell and the sum of its three component costs
MaxTotal(row) ==
    IF row.total_cost >= row.material_cost + row.labor_cost + row.subequip_cost
    THEN Round2(row.total_cost)
    ELSE Round2(row.material_cost + row.labor_cost + row.subequip_cost)

\* C21: the totalCost of an accepted row is the maximum of its total-cost cell
\* and the sum of its material, labor and sub/equip costs, also when the total
\* cell is positive and smaller than that sum.
C21_TotalIsMax ==
    /\ LastRowAccepted =>
          Val(current_division).items[Len(Val(current_division).items)].totalCost
             = MaxTotal(DetRow[sheet[row_idx]])
    /\ (parser = "call" /\ pc = "done" /\ fn = "_parse_line_item" /\ ~IsNone(Val(ret))) =>
          Val(Val(ret)).totalCost = MaxTotal(DetRow[arg])

\* the canonical code of every listed synonym and of every canonical code
ListedUnits ==
    ("EA" :> "EA") @@ ("LF" :> "LF") @@ ("SF" :> "SF") @@ ("SY" :> "SY") @@ ("CY" :> "CY") @@
    ("HR" :> "HR") @@ ("LS" :> "LS") @@ ("MO" :> "MO") @@
    ("EACH" :> "EA") @@ ("LINEAR" :> "LF") @@ ("LINEAL" :> "LF") @@ ("LIN" :> "LF") @@
    ("SQUARE" :> "SF") @@ ("SQFT" :> "SF") @@ ("CUBIC" :> "CY") @@ ("HOUR" :> "HR") @@
    ("HOURS" :> "HR") @@ ("LUMP" :> "LS") @@ ("LUMPSUM" :> "LS") @@ ("LOT" :> "LS") @@
    ("MONTH" :> "MO") @@ ("MONTHS" :> "MO")

\* C22: unit normalization maps every listed synonym, in any letter case, to
\* its canonical code (EACH to EA; LINEAR, LINEAL, LIN to LF; SQUARE, SQFT to
\* SF; CUBIC to CY; HOUR, HOURS to HR; LUMP, LUMPSUM, LOT to LS; MONTH, MONTHS
\* to MO) and every canonical code to itself.
C22_SynonymTable ==
    (parser = "call" /\ pc = "done" /\ fn \in {"_normalize_unit", "_extract_unit"}
        /\ Upper(arg) \in DOMAIN ListedUnits) =>
       Val(ret) = Some(ListedUnits[Upper(arg)])

\* the cell, stripped of every character but digits, '.' and '-', is no number
BadCost(cell) == IsNone(PyFloat(CleanCurrency(cell)))

\* what the bad cells of the catalogue row r must leave in the item made of it
BadCellsDefaulted(r, item) ==
    /\ BadCost(RowCat[r][8])  => item.materialCost = 0
    /\ BadCost(RowCat[r][10]) => item.laborCost = 0
    /\ BadCost(RowCat[r][12]) => item.subEquipCost = 0
    /\ NoNumber(RowCat[r][4]) => IsNone(item.quantity)
    /\ ~KnownUnit(RowCat[r][5]) => IsNone(item.unit)
    /\ item.tradeDescription = Strip(RowCat[r][3])

C23_Defaults ==
    /\ (parser = "call" /\ pc = "done" /\ fn \in {"_parse_currency", "_extract_cost"}
           /\ BadCost(arg)) => Val(ret) = Some(0)
    /\ (parser = "call" /\ pc = "done" /\ fn = "_parse_number" /\ NoNumber(arg)) => IsNone(Val(ret))
    /\ (parser = "call" /\ pc = "done" /\ fn = "_normalize_unit" /\ ~KnownUnit(arg)) => IsNone(Val(ret))
    /\ LastRowAccepted =>
          BadCellsDefaulted(sheet[row_idx], Val(current_division).items[Len(Val(current_division).items)])
    /\ (parser = "call" /\ pc = "done" /\ fn = "_parse_line_item" /\ ~IsNone(Val(ret))) =>
          BadCellsDefaulted(arg, Val(Val(ret)))
    /\ parser = "det" =>
          error \in {"", "Could not find Project Subtotal row",
                     "Parsed items don't reconcile with Project Subtotal"}

\* the item scan goes on to the next row, whatever the row it read holds
ScanGoesOn ==
    (parser = "det" /\ pc = "scan" /\ row_idx < Val(project_subtotal_idx)) =>
       (pc' = "scan" /\ row_idx' = row_idx + 1)

\* C23: a single bad cell never aborts the parse: an unparseable cost cell
\* gives 0.0, an unparseable quantity null, an unrecognized unit null, the
\* row's other fields are those of their own cells and the scan goes on with
\* the next row.
C23_BadCellNeverAborts == [](C23_Defaults) /\ [][ScanGoesOn]_vars

\* for each row of the catalogue and each field, the columns whose cell holds
\* one of the field's variants
MatchCols ==
    [r \in DOMAIN RowCat |-> [f \in Fields |-> {c \in Columns : HeaderMatches(f, RowCat[r][c + 1])}]]

\* the cells <<row, column>> of the six candidate rows that match the field
Candidates(f) ==
    {<<i, c>> \in (1..6) \X Columns : i <= Len(EstFrame(sheet)) /\ c \in MatchCols[EstFrame(sheet)[i]][f]}

\* the first of the cells, rows top to bottom and cells left to right
FirstCell(cands) ==
    CHOOSE x \in cands : \A y \in cands : x[1] < y[1] \/ (x[1] = y[1] /\ x[2] <= y[2])

\* the ColumnMap as _resolve_headers returned it
C24_Bound ==
    (parser = "est" /\ pc = "scan" /\ row_idx = 0) =>
       /\ DOMAIN column_map = {f \in Fields : Candidates(f) # {}}
       /\ \A f \in DOMAIN column_map : column_map[f] = FirstCell(Candidates(f))[2]

\* C24: header resolution binds a field to the column of the first cell, rows
\* top to bottom and cells left to right, whose normalized text contains one of
\* the field's variants; a bound field is never bound again and has one column.
C24_FirstMatchWins ==
    [](C24_Bound) /\ [][(parser = "est" /\ pc # "start") => column_map' = column_map]_vars

\* totalCost is matched in the labels row, columns H, J, L and M, and in a later
\* candidate row in column C, and is bound to H
C24_Witness ==
    /\ parser = "est" /\ pc = "scan"
    /\ {<<5, 7>>, <<5, 9>>, <<5, 12>>, <<6, 2>>} \subseteq Candidates("totalCost")
    /\ column_map["totalCost"] = 7

\* C25: with any ColumnMap, empty, partial or complete, the division detection
\* and the line-item extraction of EstimateParser never raise: header
\* resolution and the row scan that uses its map end without error on every
\* sheet, and _detect_division returns for every row.
C25_ScanNeverRaises ==
    /\ parser = "est" => ~(pc = "raised" /\ row_idx < Len(EstFrame(sheet)))
    /\ parser = "est" => error # "Parse failed: name 'df' is not defined"
    /\ (parser = "call" /\ pc = "done" /\ fn = "_detect_division") =>
          Val(ret).kind \in {"division", "none"}

\* the row index an item's lineId ends with
RowOfItem(item) == DecVal(LastDashPart(item.lineId))

\* the header rows the item scan reads above row n
HeadersAbove(n) == {h \in FirstItemRow..(n - 1) : DetRow[sheet[h + 1]].is_division}

\* the items of division d are made of rows below the same header, the closest
\* above each of them, whose numeral is the division's code
UnderOwnHeader(d) ==
    \A k \in 1..Len(d.items) :
       /\ RowOfItem(d.items[k]) \in FirstItemRow..(Val(project_subtotal_idx) - 1)
       /\ DetRow[sheet[RowOfItem(d.items[k]) + 1]].description = d.items[k].tradeDescription
       /\ HeadersAbove(RowOfItem(d.items[k])) # {}
       /\ Greatest(HeadersAbove(RowOfItem(d.items[k]))) = Greatest(HeadersAbove(RowOfItem(d.items[1])))
       /\ ZFill2(DetRow[sheet[Greatest(HeadersAbove(RowOfItem(d.items[k]))) + 1]].div_code_raw)
             = d.divisionCode
       /\ Prefix(d.items[k].lineId, 3) = d.divisionCode \o "-"
       /\ k > 1 => RowOfItem(d.items[k - 1]) < RowOfItem(d.items[k])

\* C26: in a result of the deterministic parser every line item belongs to the
\* division whose header row is the closest above the item's row: its lineId
\* starts with that division's code and ends with the item's row index, the
\* items of a division are in strictly increasing row order, and a row met
\* before the first header produces no item.
C26_ItemsUnderNearestHeader ==
    (parser = "det" /\ pc = "done") =>
       /\ \A k \in 1..Len(Val(result).divisions) : UnderOwnHeader(Val(result).divisions[k])
       /\ \A k \in 1..(Len(Val(result).divisions) - 1) :
             RowOfItem(Val(result).divisions[k].items[Len(Val(result).divisions[k].items)])
                < Greatest(HeadersAbove(RowOfItem(Val(result).divisions[k + 1].items[1])))

\* a returned result of two divisions on a sheet whose first scanned row is an
\* item row before any header
C26_Witness ==
    /\ parser = "det" /\ pc = "done"
    /\ Len(Val(result).divisions) = 2
    /\ ~DetRow[sheet[FirstItemRow + 1]].is_division /\ IsItemRow(DetRow[sheet[FirstItemRow + 1]])
    /\ RowOfItem(Val(result).divisions[1].items[1]) > FirstItemRow + 1

\* the divisions the scan holds: the closed ones and the open one
HeldDivisions == divisions \o (IF IsNone(current_division) THEN <<>> ELSE <<Val(current_division)>>)

\* every division held comes from a header row, and every item from a row, with
\* an index from 6 up to the one before the bottom-most Project Subtotal row
OnlyScannedRows ==
    \A k \in 1..Len(HeldDivisions) :
       /\ \E h \in 6..(Val(project_subtotal_idx) - 1) :
             /\ DetRow[sheet[h + 1]].is_division
             /\ ZFill2(DetRow[sheet[h + 1]].div_code_raw) = HeldDivisions[k].divisionCode
             /\ DetRow[sheet[h + 1]].description = HeldDivisions[k].divisionName
       /\ \A j \in 1..Len(HeldDivisions[k].items) :
             /\ RowOfItem(HeldDivisions[k].items[j]) \in 6..(Val(project_subtotal_idx) - 1)
             /\ DetRow[sheet[RowOfItem(HeldDivisions[k].items[j]) + 1]].description
                   = HeldDivisions[k].items[j].tradeDescription

C27_Bound ==
    (parser = "det" /\ pc \in {"scan", "reconcile", "done"}) =>
       /\ SubtotalRows # {} /\ Val(project_subtotal_idx) = Greatest(SubtotalRows)
       /\ OnlyScannedRows
       /\ Val(project_subtotal_idx) <= 6 => HeldDivisions = <<>>
       /\ pc = "scan" => row_idx >= 6
       /\ pc = "done" => /\ Val(result).divisions = divisions
                         /\ Val(project_subtotal_idx) <= 6 => Val(result).divisions = <<>>

\* a step that opens a division or adds an item reads a row of that range
C27_Step ==
    (parser = "det" /\ (current_division' # current_division \/ divisions' # divisions)) =>
       /\ pc = "scan"
       /\ \/ row_idx \in 6..(Val(project_subtotal_idx) - 1) /\ row_idx' = row_idx + 1
          \/ pc' = "reconcile" /\ current_division' = current_division

\* C27: the row scan of the deterministic parser covers only the row indices from
\* 6 up to but excluding the index of the bottom-most 'project subtotal' row: no
\* row with an index below 6 and no row at or below that subtotal row opens a
\* division or contributes a line item, whatever it holds, and when the subtotal
\* row's index is 6 or less the result has no divisions.
C27_ScanRange == [](C27_Bound) /\ [][C27_Step]_vars

\* a result without divisions for a sheet whose Project Subtotal row has index 6
\* and which has a header row and an item row both above row 6 and below the
\* subtotal row
C27_Witness ==
    /\ parser = "det" /\ pc = "done"
    /\ project_subtotal_idx = Some(6)
    /\ Val(result).divisions = <<>>
    /\ \E h, i \in 0..5 : h < i /\ DetRow[sheet[h + 1]].is_division /\ IsItemRow(DetRow[sheet[i + 1]])
    /\ \E h, i \in 7..(Len(sheet) - 1) :
          h < i /\ DetRow[sheet[h + 1]].is_division /\ IsItemRow(DetRow[sheet[i + 1]])

\* C28: in the ColumnMap produced by EstimateParser._resolve_headers no two
\* distinct semantic fields are bound to the same column (a header cell
\* 'Material Subtotal' is not the column of both materialCost and totalCost).
C28_OneFieldPerColumn ==
    (parser = "est" /\ pc # "start") =>
       \A f, g \in DOMAIN column_map : column_map[f] = column_map[g] => f = g

\* text.split('\n')
RECURSIVE SplitLines(_)
SplitLines(text) ==
    IF \A i \in 1..Len(text) : CharAt(text, i) # "\n" THEN <<text>>
    ELSE LET i == Least({j \in 1..Len(text) : CharAt(text, j) = "\n"})
         IN  <<SubSeq(text, 1, i - 1)>> \o SplitLines(SubSeq(text, i + 1, Len(text)))

\* the scanned rows the items of a result come from: the item rows with a header above them
OriginRows ==
    {i \in 6..(Val(project_subtotal_idx) - 1) :
        ~DetRow[sheet[i + 1]].is_division /\ IsItemRow(DetRow[sheet[i + 1]]) /\ HeadersAbove(i) # {}}

\* the row of the n-th item of the whole result
OriginOf(n) == CHOOSE i \in OriginRows : Cardinality({j \in OriginRows : j <= i}) = n

\* the number of items in the divisions before the k-th
RECURSIVE ItemsBefore(_, _)
ItemsBefore(divs, k) == IF k <= 1 THEN 0 ELSE Len(divs[k - 1].items) + ItemsBefore(divs, k - 1)

\* the text is the three heading lines of division d and then, item by item, a
\* line that starts with the row the item comes from and its description
PackOf(text, d, before) ==
    /\ Len(SplitLines(text)) = 3 + Len(d.items)
    /\ SplitLines(text)[1] = "DIVISION_CODE: " \o d.divisionCode
    /\ SplitLines(text)[2] = "DIVISION_NAME: " \o d.divisionName
    /\ SplitLines(text)[3] = "ROWS:"
    /\ \A j \in 1..Len(d.items) :
          LET start == "- [row=" \o IntToStr(OriginOf(before + j)) \o "] \""
                          \o d.items[j].tradeDescription \o "\" | qty="
          IN  /\ DetRow[sheet[OriginOf(before + j) + 1]].description = d.items[j].tradeDescription
              /\ Prefix(SplitLines(text)[3 + j], Len(start)) = start

\* C29: for every division emitted by the deterministic parser to_division_pack
\* renders one '- [row=N]' line per item, in item order, N being the index of
\* the row the item was made from, the last dash-separated part of its lineId;
\* for a division without items it returns the empty string.
C29_PackRows ==
    /\ (parser = "det" /\ fn = "to_division_pack") =>
          /\ Cardinality(OriginRows) = Len(ItemsOf(Val(result).divisions))
          /\ Val(result).divisions[DecVal(arg)].items # <<>>
          /\ PackOf(Val(ret), Val(result).divisions[DecVal(arg)],
                    ItemsBefore(Val(result).divisions, DecVal(arg)))
    /\ (parser = "call" /\ fn = "to_division_pack" /\ ~IsNone(ret)) => ret = Some("")

\* the pack of the second division of a result, a division of two items
C29_Witness ==
    /\ parser = "det" /\ fn = "to_division_pack" /\ arg = "2"
    /\ Len(Val(result).divisions[2].items) = 2
    /\ Len(SplitLines(Val(ret))) = 5

\* something is stored in files, budget_items or audit_logs
Written == tables.files # <<>> \/ tables.budget_items # <<>> \/ tables.audit_logs # <<>>

C30_Bound ==
    request # "none" =>
       /\ Written => /\ pc = "done"
                     /\ ItemsOf(Val(result).divisions) # <<>>
                     /\ ProjectId \in tables.projects
       /\ (pc = "raised" /\ request = "responded") => response = 500
       /\ pc = "raised" => ~Written
       /\ temp_file => request = "parsing"
       /\ request \notin {"received", "parsing"} => ~temp_file

\* a step stores rows only after the parse and the project check
C30_Step ==
    tables' # tables =>
       /\ request \in {"checked", "files_stored", "items_stored"}
       /\ pc = "done" /\ ItemsOf(Val(result).divisions) # <<>>
       /\ ProjectId \in tables.projects
       /\ ~temp_file

\* C30: smart_budget_upload writes nothing to files, budget_items or audit_logs
\* unless the deterministic parse has returned with at least one line item and
\* the project exists; when the parse fails, for a missing subtotal row or a
\* reconciliation mismatch, the request ends in an error with no database
\* write; the temporary copy of the upload is removed when the parse succeeds
\* and when it fails.
C30_UploadWrites ==
    /\ [](C30_Bound)
    /\ [][C30_Step]_vars
    /\ (request = "parsing") ~> (request # "parsing" /\ ~temp_file)
    /\ (request = "parsing" /\ pc = "raised") ~> (request = "responded" /\ response = 500 /\ ~Written)

\* a request answered with 200: the three tables hold its rows and the
\* temporary file is gone
C30_Witness ==
    /\ request = "responded" /\ response = 200
    /\ pc = "done"
    /\ Len(tables.files) = 1 /\ Len(tables.budget_items) >= 2 /\ Len(tables.audit_logs) = 1
    /\ ~temp_file

====
